---------------------------- MODULE Spec2Model ----------------------------
(***************************************************************************)
(* Job planning of the NMSSMPheno HTCondor submitters.                     *)
(*                                                                         *)
(* The module models                                                       *)
(*   - the flag/value helpers get_option_in_args and set_option_in_args    *)
(*     of Pythia/submit_py8_jobs_htcondor_new.py (specification SpecArgs), *)
(*   - the filename derivation generate_filename + the seed suffix         *)
(*     (specification SpecName),                                           *)
(*   - the Pythia8 and MG5_aMC submitters as state machines                *)
(*     (specification Spec).                                               *)
(*                                                                         *)
(* Python values are records [t, s, n]: t is the Python type, s the text   *)
(* of a str, n the number of an int or of an integer-valued float.         *)
(***************************************************************************)
EXTENDS Integers, Sequences, FiniteSets, TLC

VARIABLES
    \* ---- SpecArgs: one call sequence on an argument vector
    v0,         \* the argument vector before the calls
    v,          \* the argument vector (a Python list, mutated in place)
    flag,       \* the flag looked up or set
    value,      \* the value handed to set_option_in_args
    phase,      \* "init", "got", "set", "setgot", "reset"
    ret,        \* what the last call returned or raised
    \* ---- SpecName: one filename derivation
    tupA, tupB, \* two (channel, mass, energy, num_events, fmt, seed) tuples
    nameA, nameB, \* the filenames derived from them
    nphase,     \* "init", "named"
    \* ---- Spec: one run of a submitter
    prog,       \* "py8" or "mg5"
    pc,         \* position in submit_mc_jobs_htcondor
    err,        \* the exception that ended the run, "" when none
    env,        \* what os.path.isfile / isdir answer
    in_args,    \* the pass-through arguments as given on the command line
    args,       \* the argparse.Namespace (args.args is the shared vector)
    mg5_args,   \* the Namespace MG5ArgParser returns
    log_dir,    \* the local log_dir of submit_mc_jobs_htcondor
    masses,     \* the sweep points of the run
    point,      \* index of the sweep point being planned
    status_files, \* the local status_files
    job_ind,    \* loop variable of create_dag
    cur,        \* the DAG under construction in create_dag
    dags,       \* the DAGs create_dag returned, in order
    written,    \* the DAGs DAGMan.write() was called on
    submitted,  \* the DAGs DAGMan.submit() was called on
    \* ---- SpecCard: make_card on one card
    in_card,        \* the text of the card file make_card reads
    card_orig,      \* the text of the card before any rendering
    fields,         \* the fields, in the order iteritems() lists them
    card_template,  \* the list of lines being rewritten
    field_ind,      \* how many fields have been applied
    out_card,       \* the output card file: [exists, text]
    out_before,     \* the output card file when make_card was called
    cpc,            \* "read", "fields", "written", "failed"
    cerr,           \* the exception make_card raised, "" if none
    renderings,     \* how many times make_card has returned
    read_field,     \* the field get_value_from_card was asked for
    read_back,      \* what get_value_from_card returned or raised
    \* ---- SpecGroup: one call of grouper
    iterable,       \* the sequence handed to grouper
    gn,             \* the group size n handed to grouper
    groups,         \* the tuples the returned iterator yields
    gerr,           \* the exception grouper raised, "" if none
    gpc,            \* "call", "grouped"
    \* ---- SpecDelphes: one run of the Delphes submitter
    del_listing,    \* what os.listdir(abs_idir) returns, in its order
    del_env,        \* what os.path.isdir / isfile answer
    del_args,       \* the argparse.Namespace
    del_log_dir,    \* the local log_dir
    del_pc,         \* position in submit_delphes_jobs_htcondor
    del_err,        \* the exception that ended the run, "" when none
    input_files,    \* the accepted input files, in listing order
    batches,        \* the tuples of common.grouper not yet taken up
    ind,            \* loop variable of create_dag
    del_jobs,       \* the jobs added to the DAG, in order
    del_written,    \* the DAG was written (dry run)
    del_submitted   \* the DAG was submitted

argVars == <<v0, v, flag, value, phase, ret>>
nameVars == <<tupA, tupB, nameA, nameB, nphase>>
runVars == <<prog, pc, err, env, in_args, args, mg5_args, log_dir, masses,
             point, status_files, job_ind, cur, dags, written, submitted>>
cardVars == <<in_card, card_orig, fields, card_template, field_ind, out_card,
              out_before, cpc, cerr, renderings, read_field, read_back>>
grpVars == <<iterable, gn, groups, gerr, gpc>>
delVars == <<del_listing, del_env, del_args, del_log_dir, del_pc, del_err,
             input_files, batches, ind, del_jobs, del_written, del_submitted>>
auxVars == <<cardVars, grpVars, delVars>>
vars == <<argVars, nameVars, runVars, auxVars>>

-----------------------------------------------------------------------------
(* Python values *)

Str(s) == [t |-> "str", s |-> s, n |-> 0]
PyInt(n) == [t |-> "int", s |-> "", n |-> n]
PyFloat(n) == [t |-> "float", s |-> "", n |-> n]
PyBool(b) == [t |-> "bool", s |-> "", n |-> IF b THEN 1 ELSE 0]
None == [t |-> "none", s |-> "", n |-> 0]

IsStr(x) == x.t = "str"
IsNum(x) == x.t \in {"int", "float", "bool"}

\* Python's ==: numbers compare by value, everything else by type and value.
PyEq(a, b) == IF IsNum(a) /\ IsNum(b) THEN a.n = b.n ELSE a = b

\* Python's truth value: None, '' and 0 are false.
Truthy(x) ==
    CASE x.t = "none" -> FALSE
      [] x.t = "str" -> x.s # ""
      [] OTHER -> x.n # 0

\* str(x): a float prints with its fractional part ('5.0').
PyStr(x) ==
    CASE x.t = "none" -> "None"
      [] x.t = "str" -> x.s
      [] x.t = "int" -> ToString(x.n)
      [] x.t = "bool" -> IF x.n = 1 THEN "True" ELSE "False"
      [] OTHER -> ToString(x.n) \o ".0"

\* s.startswith('-')
StartsWithDash(s) == Len(s) >= 1 /\ SubSeq(s, 1, 1) = "-"

\* x in lst
InList(x, lst) == \E i \in 1..Len(lst) : PyEq(lst[i], x)

\* lst.index(x): the first position holding x (1-based here).
IndexOf(x, lst) == CHOOSE i \in 1..Len(lst) :
                      /\ PyEq(lst[i], x)
                      /\ \A j \in 1..(i - 1) : ~PyEq(lst[j], x)

\* lst.insert(i, x) with i the 1-based position x ends up at.
InsertAt(lst, i, x) == SubSeq(lst, 1, i - 1) \o <<x>> \o SubSeq(lst, i, Len(lst))

Ok(val) == [err |-> "", val |-> val]
Raise(e) == [err |-> e, val |-> None]


-----------------------------------------------------------------------------
(* get_option_in_args / set_option_in_args *)

\* A get without the startswith('-') test: a following flag is returned as
\* if it were the value.
get_option_in_args_noflagtest(lst, f) ==
    IF ~InList(f, lst) THEN Raise("KeyError")
    ELSE IF PyEq(f, lst[Len(lst)]) THEN Ok(None)
    ELSE Ok(lst[IndexOf(f, lst) + 1])

\* Returns [err, val]: val is the token after the first f, None when f is
\* the last token or the next token starts with '-'; err is "KeyError" when f
\* is not in lst and "AttributeError" when the next token is no str.
get_option_in_args(lst, f) ==
    IF ~InList(f, lst) THEN Raise("KeyError")
    ELSE IF PyEq(f, lst[Len(lst)]) THEN Ok(None)
    ELSE LET val == lst[IndexOf(f, lst) + 1]
         IN  IF ~IsStr(val) THEN Raise("AttributeError")
             ELSE IF StartsWithDash(val.s) THEN Ok(None)
             ELSE Ok(val)

\* A set that always inserts, also when the flag already carries a value.
set_option_in_args_insert(lst, f, x) ==
    LET got == get_option_in_args(lst, f)
    IN  IF got.err # "" THEN [err |-> got.err, args |-> lst]
        ELSE [err |-> "", args |-> InsertAt(lst, IndexOf(f, lst) + 1, x)]

\* A set that swallows the lookup error and appends the flag's value.
set_option_in_args_nokeyerror(lst, f, x) ==
    LET got == get_option_in_args(lst, f)
    IN  IF got.err # "" THEN [err |-> "", args |-> Append(lst, x)]
        ELSE IF Truthy(got.val)
        THEN [err |-> "", args |-> [lst EXCEPT ![IndexOf(f, lst) + 1] = x]]
        ELSE IF PyEq(f, lst[Len(lst)])
        THEN [err |-> "", args |-> Append(lst, x)]
        ELSE IF StartsWithDash(lst[IndexOf(f, lst) + 1].s)
        THEN [err |-> "", args |-> InsertAt(lst, IndexOf(f, lst) + 1, x)]
        ELSE [err |-> "", args |-> lst]

\* Returns [err, args]: args is the list after the call (the list itself when
\* the call raised).
set_option_in_args(lst, f, x) ==
    LET got == get_option_in_args(lst, f)
    IN  IF got.err # "" THEN [err |-> got.err, args |-> lst]
        ELSE IF Truthy(got.val)
        THEN [err |-> "", args |-> [lst EXCEPT ![IndexOf(f, lst) + 1] = x]]
        ELSE IF PyEq(f, lst[Len(lst)])
        THEN [err |-> "", args |-> Append(lst, x)]
        ELSE IF StartsWithDash(lst[IndexOf(f, lst) + 1].s)
        THEN [err |-> "", args |-> InsertAt(lst, IndexOf(f, lst) + 1, x)]
        ELSE [err |-> "", args |-> lst]

-----------------------------------------------------------------------------
(* SpecArgs: get_option_in_args and set_option_in_args on bounded vectors *)

\* Longest argument vector drawn.
MaxArgLen == 3

\* The tokens of the docstrings' examples, a value that starts with '-' and
\* the empty string.
ArgTokens == {Str("--foo"), Str("--man"), Str("bar"), Str("-5"), Str("")}
ArgFlags == {Str("--foo"), Str("--man"), Str("--fish")}
\* New values: strings, and the float create_dag hands over as the mass.
ArgValues == {Str("ball"), Str("-5"), Str(""), PyFloat(8)}

ArgVectors == UNION {[1..n -> ArgTokens] : n \in 0..MaxArgLen}

IdleArgs ==
    /\ v0 = <<>> /\ v = <<>> /\ flag = None /\ value = None
    /\ phase = "idle" /\ ret = Ok(None)

ArgsInit ==
    /\ v0 \in ArgVectors
    /\ v = v0
    /\ flag \in ArgFlags
    /\ value \in ArgValues
    /\ phase = "init"
    /\ ret = Ok(None)

\* x = get_option_in_args(v, flag)
ArgsGet ==
    /\ phase = "init"
    /\ ret' = get_option_in_args(v, flag)
    /\ phase' = "got"
    /\ UNCHANGED <<v0, v, flag, value, nameVars, runVars, auxVars>>

\* set_option_in_args(v, flag, value)
ArgsSet ==
    /\ phase = "init"
    /\ LET r == set_option_in_args(v, flag, value)
       IN  /\ v' = r.args
           /\ ret' = [err |-> r.err, val |-> None]
    /\ phase' = "set"
    /\ UNCHANGED <<v0, flag, value, nameVars, runVars, auxVars>>

\* get_option_in_args(v, flag) after a set that returned
ArgsGetAfterSet ==
    /\ phase = "set"
    /\ ret.err = ""
    /\ ret' = get_option_in_args(v, flag)
    /\ phase' = "setgot"
    /\ UNCHANGED <<v0, v, flag, value, nameVars, runVars, auxVars>>

\* set_option_in_args(v, flag, x) with x the value the get returned
ArgsSetCurrent ==
    /\ phase = "got"
    /\ ret.err = ""
    /\ LET r == set_option_in_args(v, flag, ret.val)
       IN  /\ v' = r.args
           /\ ret' = [err |-> r.err, val |-> ret.val]
    /\ phase' = "reset"
    /\ UNCHANGED <<v0, flag, value, nameVars, runVars, auxVars>>

IdleName ==
    /\ tupA = <<>> /\ tupB = <<>> /\ nameA = "" /\ nameB = "" /\ nphase = "idle"

IdleRun ==
    /\ prog = "none" /\ pc = "idle" /\ err = "" /\ env = <<>>
    /\ in_args = <<>> /\ args = <<>> /\ mg5_args = <<>> /\ log_dir = ""
    /\ masses = <<>> /\ point = 0 /\ status_files = <<>> /\ job_ind = 0
    /\ cur = <<>> /\ dags = <<>> /\ written = <<>> /\ submitted = <<>>

NoFile == [exists |-> FALSE, text |-> ""]

\* get_value_from_card has not been called.
NoRead == [err |-> "", val |-> None]

IdleCard ==
    /\ in_card = "" /\ card_orig = "" /\ fields = <<>> /\ card_template = <<>>
    /\ field_ind = 0 /\ out_card = NoFile /\ out_before = NoFile
    /\ cpc = "idle" /\ cerr = "" /\ renderings = 0
    /\ read_field = "" /\ read_back = NoRead

IdleGroup ==
    /\ iterable = <<>> /\ gn = 0 /\ groups = <<>> /\ gerr = "" /\ gpc = "idle"

IdleDelphes ==
    /\ del_listing = <<>> /\ del_env = <<>> /\ del_args = <<>>
    /\ del_log_dir = "" /\ del_pc = "idle" /\ del_err = ""
    /\ input_files = <<>> /\ batches = <<>> /\ ind = 0 /\ del_jobs = <<>>
    /\ del_written = FALSE /\ del_submitted = FALSE

IdleAux == IdleCard /\ IdleGroup /\ IdleDelphes

ArgsNext == ArgsGet \/ ArgsSet \/ ArgsGetAfterSet \/ ArgsSetCurrent

InitArgs == ArgsInit /\ IdleName /\ IdleRun /\ IdleAux

SpecArgs == InitArgs /\ [][ArgsNext]_vars

-----------------------------------------------------------------------------
(* Claims about get_option_in_args / set_option_in_args (SpecArgs) *)

\* Position of the first token equal to f, 0 when there is none.
FirstAt(lst, f) ==
    IF \E i \in 1..Len(lst) : lst[i] = f
    THEN CHOOSE i \in 1..Len(lst) : lst[i] = f /\ \A j \in 1..(i - 1) : lst[j] # f
    ELSE 0

IsLastToken(lst, f) == Len(lst) >= 1 /\ lst[Len(lst)] = f

\* f is in lst, is not its last token, and the token after its first
\* occurrence is a str that does not start with '-'.
CarriesValue(lst, f) ==
    /\ FirstAt(lst, f) > 0
    /\ ~IsLastToken(lst, f)
    /\ IsStr(lst[FirstAt(lst, f) + 1])
    /\ ~StartsWithDash(lst[FirstAt(lst, f) + 1].s)

\* f is in lst, is not its last token, and the next token starts with '-'.
FollowedByFlag(lst, f) ==
    /\ FirstAt(lst, f) > 0
    /\ ~IsLastToken(lst, f)
    /\ IsStr(lst[FirstAt(lst, f) + 1])
    /\ StartsWithDash(lst[FirstAt(lst, f) + 1].s)

\* C6: whenever the flag is present in the vector with a value x, a
\* get_option_in_args after set_option_in_args(v, f, y) returns y, for any
\* new value y.
C6_SetThenGet ==
    (phase = "setgot" /\ CarriesValue(v0, flag)) => ret = Ok(value)

C8_SetReplacesOrInserts ==
    (phase = "set" /\ FirstAt(v0, flag) > 0) =>
        /\ ret.err = ""
        /\ CarriesValue(v0, flag) =>
               v = [v0 EXCEPT ![FirstAt(v0, flag) + 1] = value]
        /\ IsLastToken(v0, flag) => v = Append(v0, value)
        /\ FollowedByFlag(v0, flag) =>
               v = InsertAt(v0, FirstAt(v0, flag) + 1, value)
        /\ Len(v) <= Len(v0) + 1

\* C9: for a flag that is not a token of the vector, get_option_in_args and
\* set_option_in_args both raise KeyError and leave the vector unchanged.
C9_AbsentFlagKeyError ==
    (phase \in {"got", "set"} /\ FirstAt(v0, flag) = 0) =>
        (ret.err = "KeyError" /\ v = v0)

\* C9 witness: the docstring's lookup of '--fish', after a set that raised.
C9_Witness ==
    /\ phase = "set"
    /\ v0 = <<Str("--foo"), Str("bar"), Str("--man")>>
    /\ flag = Str("--fish")
    /\ ret.err = "KeyError"

\* C10: when the flag carries a value x (x = get_option_in_args(v, f) is a
\* token, not None), set_option_in_args(v, f, x) leaves the vector exactly
\* unchanged.
C10_SetCurrentIsIdentity ==
    (phase = "reset" /\ ret.val # None) => (ret.err = "" /\ v = v0)

\* C10 witness: '--foo' carries 'bar' and is set to 'bar' again.
C10_Witness ==
    /\ phase = "reset"
    /\ v0 = <<Str("--foo"), Str("bar"), Str("--man")>>
    /\ flag = Str("--foo")
    /\ ret.val = Str("bar")

-----------------------------------------------------------------------------
(* Filenames: os.path helpers, generate_filename and the seed suffix *)

\* p.rfind(c), 1-based, 0 when c does not occur
RFind(p, c) ==
    LET at == {i \in 1..Len(p) : SubSeq(p, i, i) = c}
    IN  IF at = {} THEN 0 ELSE CHOOSE i \in at : \A j \in at : j <= i

\* os.path.basename(p): what follows the last '/'
basename(p) == SubSeq(p, RFind(p, "/") + 1, Len(p))

\* os.path.splitext(p)[0]: p up to its last '.', when that dot comes after
\* the last '/' and after a character of the filename that is no dot
splitext_root(p) ==
    LET sep == RFind(p, "/")
        dot == RFind(p, ".")
    IN  IF dot > sep /\ \E k \in (sep + 1)..(dot - 1) : SubSeq(p, k, k) # "."
        THEN SubSeq(p, 1, dot - 1)
        ELSE p

\* A generate_filename that leaves the energy out of the name.
generate_filename_noenergy(channel, mass, energy, num_events, fmt) ==
    channel \o "_mass" \o PyStr(mass) \o "_n" \o ToString(num_events)
            \o "." \o fmt

\* "%s_mass%s_%dTeV_n%s.%s" % (channel, str(mass), energy, str(num_events), fmt)
generate_filename(channel, mass, energy, num_events, fmt) ==
    channel \o "_mass" \o PyStr(mass) \o "_" \o ToString(energy) \o "TeV_n"
            \o ToString(num_events) \o "." \o fmt

\* "%s_seed%d.%s" % (os.path.splitext(out_name)[0], job_index, fmt)
seed_name(out_name, job_index, fmt) ==
    splitext_root(out_name) \o "_seed" \o ToString(job_index) \o "." \o fmt

\* The name generate_pythia_job gives the output of one format when the user
\* named none: generate_filename, basename, then the seed suffix.
auto_out_name(t) ==
    seed_name(basename(generate_filename(t.channel, t.mass, t.energy,
                                         t.num_events, t.fmt)),
              t.seed, t.fmt)

Formats == <<"hepmc", "root", "lhe">>

\* Channels (card file stems) that repeat the separators of the name.
NameChannels == {"ggh", "ggh_mass4", "ggh_mass4_13TeV_n1"}
\* Masses as the code holds them: a float of the sweep, or the text of --mass.
NameMasses == {PyFloat(4), PyFloat(41), Str("4"), Str("41")}
NameEnergies == {3, 13}
NameCounts == {1, 11}
NameSeeds == {1, 11}

NameTuples ==
    [channel : NameChannels, mass : NameMasses, energy : NameEnergies,
     num_events : NameCounts, fmt : {Formats[i] : i \in 1..Len(Formats)},
     seed : NameSeeds]

NameInit ==
    /\ tupA \in NameTuples
    /\ tupB \in NameTuples
    /\ nameA = "" /\ nameB = ""
    /\ nphase = "init"

\* The two filenames are derived.
NameBoth ==
    /\ nphase = "init"
    /\ nameA' = auto_out_name(tupA)
    /\ nameB' = auto_out_name(tupB)
    /\ nphase' = "named"
    /\ UNCHANGED <<tupA, tupB, argVars, runVars, auxVars>>

NameNext == NameBoth

InitName == NameInit /\ IdleArgs /\ IdleRun /\ IdleAux

SpecName == InitName /\ [][NameNext]_vars

\* C5: two distinct tuples (channel, mass, energy, event count, extension,
\* seed) never get the same output filename from generate_filename and the
\* '_seed<seed>' suffix.
C5_DistinctTuplesDistinctNames ==
    (nphase = "named" /\ tupA # tupB) => nameA # nameB

\* C5 witness: two tuples whose names differ only in where the separators
\* fall (channel 'ggh_mass4' with mass '41' and 11 events for seed 1, against
\* mass 41.0) have both been named.
C5_Witness ==
    /\ nphase = "named"
    /\ tupA = [channel |-> "ggh_mass4", mass |-> Str("41"), energy |-> 13,
               num_events |-> 11, fmt |-> "hepmc", seed |-> 1]
    /\ tupB = [tupA EXCEPT !.mass = PyFloat(41)]
    /\ nameA = "ggh_mass4_mass41_13TeV_n11_seed1.hepmc"
    /\ nameB = "ggh_mass4_mass41.0_13TeV_n11_seed1.hepmc"

-----------------------------------------------------------------------------
(* The Pythia8 submitter: helpers of submit_py8_jobs_htcondor_new.py *)

Digits == <<"0", "1", "2", "3", "4", "5", "6", "7", "8", "9">>

IsDigits(s) ==
    /\ s # ""
    /\ \A i \in 1..Len(s) : \E d \in 1..10 : SubSeq(s, i, i) = Digits[d]

RECURSIVE DigitsVal(_)
DigitsVal(s) ==
    IF s = "" THEN 0
    ELSE 10 * DigitsVal(SubSeq(s, 1, Len(s) - 1))
         + ((CHOOSE d \in 1..10 : SubSeq(s, Len(s), Len(s)) = Digits[d]) - 1)

\* int(x): [err, val] with val a number
PyIntOf(x) ==
    CASE x.t = "none" -> [err |-> "TypeError", val |-> 0]
      [] x.t = "str" ->
            IF IsDigits(x.s) THEN [err |-> "", val |-> DigitsVal(x.s)]
            ELSE IF StartsWithDash(x.s) /\ IsDigits(Tail(x.s))
            THEN [err |-> "", val |-> 0 - DigitsVal(Tail(x.s))]
            ELSE [err |-> "ValueError", val |-> 0]
      [] OTHER -> [err |-> "", val |-> x.n]

\* strftime("%d_%b_%y") and strftime("%H%M%S") of the run
DATE == "05_Oct_15"
TIME == "120000"
\* getpass.getuser() and os.environ['LOGNAME']
USER == "user"
LOG_DIR == "/storage/" \o USER \o "/NMSSMPheno/Pythia8"

\* os.path.join('%s_mass%s_%dTeV' % (channel, mass, energy), strftime(...))
generate_subdir(channel, energy, mass) ==
    channel \o "_mass" \o PyStr(mass) \o "_" \o ToString(energy) \o "TeV"
            \o "/" \o DATE

generate_dir_soolin(channel, energy, mass) ==
    "/hdfs/user/" \o USER \o "/NMSSMPheno/Pythia8/"
                  \o generate_subdir(channel, energy, mass)

\* A frange that stops before the end value (i < stop).
RECURSIVE frange_exclusive(_, _, _)
frange_exclusive(start, stop, step) ==
    IF start < stop
    THEN <<PyFloat(start)>> \o frange_exclusive(start + step, stop, step)
    ELSE <<>>

\* common.frange over integer-valued floats: start, start + step, ... while
\* <= stop (step > 0 is what check_args lets through)
RECURSIVE frange(_, _, _)
frange(start, stop, step) ==
    IF start <= stop
    THEN <<PyFloat(start)>> \o frange(start + step, stop, step)
    ELSE <<>>

\* A check_args that looks at the executable and the masses only.
check_args_norange(a, e) ==
    IF ~e.exe_isfile THEN "RuntimeError"
    ELSE IF a.massRange # <<>>
            /\ \E i \in 1..3 : a.massRange[i] <= 0 THEN "RuntimeError"
    ELSE IF a.massRange # <<>> /\ a.massRange[2] < a.massRange[1]
    THEN "RuntimeError"
    ELSE ""

\* A check_args that does not compare the end of the sweep with its start.
check_args_noorder(a, e) ==
    IF ~e.exe_isfile THEN "RuntimeError"
    ELSE IF a.jobIdRange[1] < 1 THEN "RuntimeError"
    ELSE IF a.jobIdRange[2] < a.jobIdRange[1] THEN "RuntimeError"
    ELSE IF a.massRange # <<>>
            /\ \E i \in 1..3 : a.massRange[i] <= 0 THEN "RuntimeError"
    ELSE ""

\* check_args: the error it raises, "" when it returns
check_args(a, e) ==
    IF ~e.exe_isfile THEN "RuntimeError"
    ELSE IF a.jobIdRange[1] < 1 THEN "RuntimeError"
    ELSE IF a.jobIdRange[2] < a.jobIdRange[1] THEN "RuntimeError"
    ELSE IF a.massRange # <<>>
            /\ \E i \in 1..3 : a.massRange[i] <= 0 THEN "RuntimeError"
    ELSE IF a.massRange # <<>> /\ a.massRange[2] < a.massRange[1]
    THEN "RuntimeError"
    ELSE ""

\* get_number_events: [err, val]
get_number_events(lst) ==
    IF InList(Str("--number"), lst)
    THEN LET got == get_option_in_args(lst, Str("--number"))
         IN  IF got.err # "" THEN [err |-> got.err, val |-> 0]
             ELSE PyIntOf(got.val)
    ELSE IF InList(Str("-n"), lst)
    THEN LET got == get_option_in_args(lst, Str("-n"))
         IN  IF got.err # "" THEN [err |-> got.err, val |-> 0]
             ELSE PyIntOf(got.val)
    ELSE [err |-> "", val |-> 1]

\* One pass of the loop over the formats in generate_pythia_job. st is
\* [err, exe_args, out_files]; a is the Namespace.
format_step(st, a, job_index, mass, num_events, fmt) ==
    LET f == Str("--" \o fmt)
        fail(e) == [st EXCEPT !.err = e]
    IN
    IF st.err # "" \/ ~InList(f, st.exe_args) THEN st
    ELSE
    LET user == get_option_in_args(a.args, f) IN
    IF user.err # "" THEN fail(user.err)
    ELSE
    LET auto == generate_filename(a.channel, mass, a.energy, num_events, fmt)
        s1 == IF ~Truthy(user.val)
              THEN set_option_in_args(st.exe_args, f, Str(auto))
              ELSE [err |-> "", args |-> st.exe_args]
    IN
    IF s1.err # "" THEN fail(s1.err)
    ELSE
    LET named == get_option_in_args(s1.args, f) IN
    IF named.err # "" THEN fail(named.err)
    ELSE IF ~IsStr(named.val) THEN fail("AttributeError")
    ELSE
    LET out_name == seed_name(basename(named.val.s), job_index, fmt)
        s2 == set_option_in_args(s1.args, f, Str(out_name))
    IN
    IF s2.err # "" THEN fail(s2.err)
    ELSE [err |-> "",
          exe_args |-> s2.args,
          out_files |-> Append(st.out_files,
                               IF InList(Str("--zip"), s2.args)
                               THEN out_name \o ".gz" ELSE out_name)]

\* generate_pythia_job: [err, job]; the job is
\* ht.Job(name, args, output_files, hdfs_mirror_dir).
generate_pythia_job(a, job_index, mass, num_events) ==
    LET st0 == [err |-> "",
                exe_args |-> a.args \o <<Str("--seed"), PyInt(job_index)>>,
                out_files |-> <<>>]
        st1 == format_step(st0, a, job_index, mass, num_events, Formats[1])
        st2 == format_step(st1, a, job_index, mass, num_events, Formats[2])
        st3 == format_step(st2, a, job_index, mass, num_events, Formats[3])
    IN  [err |-> st3.err,
         job |-> [name |-> ToString(job_index) \o "_" \o a.channel,
                  job_index |-> job_index,
                  args |-> st3.exe_args,
                  output_files |-> st3.out_files,
                  hdfs_mirror_dir |-> a.oDir]]

-----------------------------------------------------------------------------
(* The Pythia8 submitter as a state machine *)

\* Largest job ID and largest mass, step or end of a sweep drawn.
MaxJobId == 2
MaxMass == 2

Toks(ss) == [i \in 1..Len(ss) |-> Str(ss[i])]

\* Pass-through arguments (--args ...) of the Pythia8 submitter.
Py8BaseArgs == {
    Toks(<<"--card", "c.txt", "--hepmc">>),
    Toks(<<"--card", "c.txt", "--mass", "8", "--hepmc", "o/my.hepmc", "-n", "10">>),
    Toks(<<"--card", "c.txt", "--mass", "8", "--seed", "7", "--root", "r.root">>),
    Toks(<<"--card", "c.txt", "--mass", "8">>),
    Toks(<<"--card", "c.txt", "--mass", "8", "--hepmc", "">>),
    Toks(<<"--mass", "8", "--hepmc">>),
    Toks(<<"--card", "in/c.txt", "--zip", "--energy", "8", "--number", "5",
           "--mass", "8", "--lhe">>),
    Toks(<<"--card", "c.txt", "--mass", "--hepmc", "h.hepmc">>) }

\* --massRange start end step, <<>> when the option is not given
MassRanges == {<<>>} \cup ((0..MaxMass) \X (0..MaxMass) \X (0..MaxMass))
JobIdRanges == (0..MaxJobId) \X (0..MaxJobId)
ODirs == {"", "/hdfs/out"}

\* What the file system answers the Pythia8 submitter.
Py8Envs == {[exe_isfile |-> TRUE, card_isfile |-> TRUE],
            [exe_isfile |-> FALSE, card_isfile |-> TRUE],
            [exe_isfile |-> TRUE, card_isfile |-> FALSE]}

NoDag == [filename |-> "", status_file |-> "", log_dir |-> "",
          hdfs_store |-> "", mass |-> None, num_events |-> 0, jobs |-> <<>>]

NoMg5Args == [err |-> "", ns |-> <<>>]

\* The run ends with exception e.
Fail(e) ==
    /\ pc' = "failed"
    /\ err' = e

\* The Namespace after parser.parse_args (lines 55-92); card, channel and
\* energy are set later.
Py8Init ==
    /\ prog = "py8"
    /\ in_args \in Py8BaseArgs
    /\ env \in Py8Envs
    /\ \E r \in JobIdRanges, o \in ODirs, m \in MassRanges, d \in BOOLEAN :
          args = [jobIdRange |-> r, oDir |-> o, exe |-> "generateMC.exe",
                  massRange |-> m, args |-> in_args, dry |-> d,
                  card |-> "", channel |-> "", energy |-> 0]
    /\ mg5_args = NoMg5Args
    /\ log_dir = LOG_DIR
    /\ pc = "start" /\ err = "" /\ masses = <<>> /\ point = 0
    /\ status_files = <<>> /\ job_ind = 0 /\ cur = NoDag /\ dags = <<>>
    /\ written = <<>> /\ submitted = <<>>

\* lines 101-102: check_args(args)
Py8CheckArgs ==
    /\ prog = "py8" /\ pc = "start"
    /\ LET e == check_args(args, env)
       IN  IF e # "" THEN Fail(e) ELSE pc' = "setup" /\ err' = err
    /\ UNCHANGED <<prog, env, in_args, args, mg5_args, log_dir, masses, point,
                   status_files, job_ind, cur, dags, written, submitted,
                   argVars, nameVars, auxVars>>

\* lines 104-132: the card, --zip, the energy and the masses to loop over.
\* [err, args, masses]
py8_setup(a, e) ==
    LET fail(x) == [err |-> x, args |-> a, masses |-> <<>>]
        c == get_option_in_args(a.args, Str("--card"))
    IN
    \* the KeyError is caught and logged; card is then read unbound
    IF c.err = "KeyError" THEN fail("UnboundLocalError")
    ELSE IF c.err # "" THEN fail(c.err)
    ELSE IF ~Truthy(c.val) THEN fail("RuntimeError")
    ELSE IF ~e.card_isfile THEN fail("RuntimeError")
    ELSE
    LET zipped == IF InList(Str("--zip"), a.args) THEN a.args
                  ELSE Append(a.args, Str("--zip"))
        en == get_option_in_args(zipped, Str("--energy"))
        energy == IF en.err = "KeyError" THEN [err |-> "", val |-> 13]
                  ELSE IF en.err # "" THEN [err |-> en.err, val |-> 0]
                  ELSE PyIntOf(en.val)
        a1 == [a EXCEPT !.card = c.val.s,
                        !.channel = splitext_root(basename(c.val.s)),
                        !.args = zipped,
                        !.energy = energy.val]
        m == get_option_in_args(zipped, Str("--mass"))
    IN
    IF energy.err # "" THEN fail(energy.err)
    ELSE IF a.massRange # <<>>
    THEN [err |-> "", args |-> a1,
          masses |-> frange(a.massRange[1], a.massRange[2], a.massRange[3])]
    ELSE IF m.err # "" THEN fail(m.err)
    ELSE [err |-> "", args |-> a1, masses |-> <<m.val>>]

Py8Setup ==
    /\ prog = "py8" /\ pc = "setup"
    /\ LET r == py8_setup(args, env)
       IN  IF r.err # ""
           THEN Fail(r.err) /\ UNCHANGED <<args, masses>>
           ELSE /\ args' = r.args
                /\ masses' = r.masses
                /\ pc' = "loop"
                /\ err' = err
    /\ UNCHANGED <<prog, env, in_args, mg5_args, log_dir, point, status_files,
                   job_ind, cur, dags, written, submitted, argVars, nameVars, auxVars>>

\* '%s/py8_%s' % (generate_subdir(channel, energy, mass), strftime("%H%M%S"))
py8_file_stem(a, mass) ==
    generate_subdir(a.channel, a.energy, mass) \o "/py8_" \o TIME

\* lines 134-149: the head of one pass of the loop over the masses
Py8BeginPoint ==
    /\ prog = "py8" /\ pc = "loop" /\ point < Len(masses)
    /\ LET mass == masses[point + 1]
       IN  /\ args' = [args EXCEPT !.oDir =
                          IF @ = ""
                          THEN generate_dir_soolin(args.channel, args.energy, mass)
                          ELSE @]
           /\ log_dir' = log_dir \o "/"
                           \o generate_subdir(args.channel, args.energy, mass)
                           \o "/logs"
           /\ status_files' = Append(status_files,
                                     py8_file_stem(args, mass) \o ".status")
    /\ point' = point + 1
    /\ pc' = "create_dag"
    /\ UNCHANGED <<prog, err, env, in_args, mg5_args, masses, job_ind, cur,
                   dags, written, submitted, argVars, nameVars, auxVars>>

\* lines 218-224: the mass is set in, or appended to, the shared vector.
\* [err, args]
py8_set_mass(lst, mass) ==
    IF InList(Str("--mass"), lst)
    THEN set_option_in_args(lst, Str("--mass"), mass)
    ELSE [err |-> "", args |-> lst \o <<Str("--mass"), mass>>]

\* lines 218-236: create_dag up to its loop over the job IDs
Py8CreateDag ==
    /\ prog = "py8" /\ pc = "create_dag"
    /\ LET mass == masses[point]
           num_events == get_number_events(args.args)
           set == py8_set_mass(args.args, mass)
       IN  IF num_events.err # ""
           THEN Fail(num_events.err) /\ UNCHANGED <<args, cur, job_ind>>
           ELSE IF set.err # ""
           THEN Fail(set.err) /\ UNCHANGED <<args, cur, job_ind>>
           ELSE /\ args' = [args EXCEPT !.args = set.args]
                /\ cur' = [filename |-> py8_file_stem(args, mass) \o ".dag",
                           status_file |-> py8_file_stem(args, mass) \o ".status",
                           log_dir |-> log_dir,
                           hdfs_store |-> args.oDir,
                           mass |-> mass,
                           num_events |-> num_events.val,
                           jobs |-> <<>>]
                /\ job_ind' = args.jobIdRange[1]
                /\ pc' = "jobs"
                /\ err' = err
    /\ UNCHANGED <<prog, env, in_args, mg5_args, log_dir, masses, point,
                   status_files, dags, written, submitted, argVars, nameVars, auxVars>>

\* A pass of create_dag's loop whose job works on the shared vector itself
\* (exe_args = args.args, no copy): the jobs made so far and the base
\* arguments all see the tokens of the newest job.
Py8GenerateJob_shared ==
    /\ prog = "py8" /\ pc = "jobs" /\ job_ind <= args.jobIdRange[2]
    /\ LET r == generate_pythia_job(args, job_ind, cur.mass, cur.num_events)
           shared(jobs) == [i \in 1..Len(jobs) |->
                               [jobs[i] EXCEPT !.args = r.job.args]]
       IN  IF r.err # ""
           THEN Fail(r.err) /\ UNCHANGED <<args, cur, job_ind>>
           ELSE /\ args' = [args EXCEPT !.args = r.job.args]
                /\ cur' = [cur EXCEPT !.jobs = shared(Append(@, r.job))]
                /\ job_ind' = job_ind + 1
                /\ pc' = pc
                /\ err' = err
    /\ UNCHANGED <<prog, env, in_args, mg5_args, log_dir, masses, point,
                   status_files, dags, written, submitted, argVars, nameVars, auxVars>>

\* lines 238-241: one pass of create_dag's loop
Py8GenerateJob ==
    /\ prog = "py8" /\ pc = "jobs" /\ job_ind <= args.jobIdRange[2]
    /\ LET r == generate_pythia_job(args, job_ind, cur.mass, cur.num_events)
       IN  IF r.err # ""
           THEN Fail(r.err) /\ UNCHANGED <<cur, job_ind>>
           ELSE /\ cur' = [cur EXCEPT !.jobs = Append(@, r.job)]
                /\ job_ind' = job_ind + 1
                /\ pc' = pc
                /\ err' = err
    /\ UNCHANGED <<prog, env, in_args, args, mg5_args, log_dir, masses, point,
                   status_files, dags, written, submitted, argVars, nameVars, auxVars>>

\* A submit step that does not look at --dry.
Py8Submit_nodry ==
    /\ prog = "py8" /\ pc = "jobs" /\ job_ind > args.jobIdRange[2]
    /\ dags' = Append(dags, cur)
    /\ submitted' = Append(submitted, cur.filename) /\ written' = written
    /\ cur' = NoDag
    /\ pc' = "loop"
    /\ UNCHANGED <<prog, err, env, in_args, args, mg5_args, log_dir, masses,
                   point, status_files, job_ind, argVars, nameVars, auxVars>>

\* lines 243 and 155-160: create_dag returns, the DAG is written or submitted
Py8Submit ==
    /\ prog = "py8" /\ pc = "jobs" /\ job_ind > args.jobIdRange[2]
    /\ dags' = Append(dags, cur)
    /\ IF args.dry
       THEN written' = Append(written, cur.filename) /\ submitted' = submitted
       ELSE submitted' = Append(submitted, cur.filename) /\ written' = written
    /\ cur' = NoDag
    /\ pc' = "loop"
    /\ UNCHANGED <<prog, err, env, in_args, args, mg5_args, log_dir, masses,
                   point, status_files, job_ind, argVars, nameVars, auxVars>>

\* lines 162-166: the loop is over, the submitter returns 0
Py8Finish ==
    /\ prog = "py8" /\ pc = "loop" /\ point = Len(masses)
    /\ pc' = "done"
    /\ UNCHANGED <<prog, err, env, in_args, args, mg5_args, log_dir, masses,
                   point, status_files, job_ind, cur, dags, written, submitted,
                   argVars, nameVars, auxVars>>

-----------------------------------------------------------------------------
(* The MG5_aMC submitter: MG5ArgParser and generate_mg5_job *)

\* The attributes of the Namespace MG5ArgParser fills.
MG5Keys == <<"card", "exe", "nevents", "iseed", "pythia8_path", "hepmc",
             "dry", "new", "newstem", "v">>

\* Option strings that take one value, with their dest and whether type=int.
MG5ValueOpts ==
    [opt : {"--exe"}, dest : {"exe"}, int : {FALSE}] \cup
    [opt : {"-n", "--nevents"}, dest : {"nevents"}, int : {TRUE}] \cup
    [opt : {"--seed"}, dest : {"iseed"}, int : {TRUE}] \cup
    [opt : {"--pythia8"}, dest : {"pythia8_path"}, int : {FALSE}] \cup
    [opt : {"--hepmc"}, dest : {"hepmc"}, int : {FALSE}] \cup
    [opt : {"--new"}, dest : {"new"}, int : {FALSE}] \cup
    [opt : {"--newstem"}, dest : {"newstem"}, int : {FALSE}]

\* action='store_true' options
MG5Switches ==
    [opt : {"--dry"}, dest : {"dry"}] \cup [opt : {"-v"}, dest : {"v"}]

\* The defaults of add_arguments.
MG5Defaults ==
    [card |-> None, exe |-> Str("mg5_aMC"), nevents |-> None,
     iseed |-> PyInt(0), pythia8_path |-> None, hepmc |-> None,
     dry |-> PyBool(FALSE), new |-> None, newstem |-> None,
     v |-> PyBool(FALSE)]

\* argparse takes '-<digits>' for a negative number, not for an option.
IsNegativeNumber(s) == StartsWithDash(s) /\ IsDigits(Tail(s))
LooksLikeOption(s) == StartsWithDash(s) /\ ~IsNegativeNumber(s)

\* parse_args from token i on: [err, ns]; argparse exits (SystemExit) on an
\* unknown option, a missing or ill-typed value, a second positional and a
\* missing required argument.
RECURSIVE mg5_parse_from(_, _, _)
mg5_parse_from(toks, i, ns) ==
    LET exit == [err |-> "SystemExit", ns |-> ns] IN
    IF i > Len(toks)
    THEN IF ns.card = None \/ ns.pythia8_path = None \/ ns.hepmc = None
         THEN exit ELSE [err |-> "", ns |-> ns]
    ELSE
    LET t == toks[i].s
        vo == {o \in MG5ValueOpts : o.opt = t}
        sw == {o \in MG5Switches : o.opt = t}
    IN
    IF vo # {}
    THEN LET o == CHOOSE o \in vo : TRUE IN
         IF i = Len(toks) \/ LooksLikeOption(toks[i + 1].s) THEN exit
         ELSE IF o.int
         THEN LET n == PyIntOf(toks[i + 1]) IN
              IF n.err # "" THEN exit
              ELSE mg5_parse_from(toks, i + 2,
                                  [ns EXCEPT ![o.dest] = PyInt(n.val)])
         ELSE mg5_parse_from(toks, i + 2, [ns EXCEPT ![o.dest] = toks[i + 1]])
    ELSE IF sw # {}
    THEN mg5_parse_from(toks, i + 1,
                        [ns EXCEPT ![(CHOOSE o \in sw : TRUE).dest] = PyBool(TRUE)])
    ELSE IF LooksLikeOption(t) THEN exit
    ELSE IF ns.card # None THEN exit
    ELSE mg5_parse_from(toks, i + 1, [ns EXCEPT !.card = toks[i]])

\* MG5ArgParser().parse_args(args.args)
mg5_parse_args(toks) == mg5_parse_from(toks, 1, MG5Defaults)

\* os.getcwd()
CWD == "/cwd"
\* os.path.abspath for paths without '.' and '..' parts
abspath(p) == IF Len(p) >= 1 /\ SubSeq(p, 1, 1) = "/" THEN p ELSE CWD \o "/" \o p

\* os.path.join(a, b)
path_join(a, b) ==
    IF Len(b) >= 1 /\ SubSeq(b, 1, 1) = "/" THEN b
    ELSE IF a = "" \/ SubSeq(a, Len(a), Len(a)) = "/" THEN a \o b
    ELSE a \o "/" \o b

\* '%s.tgz' % re.findall(r'MG5_aMC_v.*', mg5_dir)[0]
MG5_ZIP == "MG5_aMC_v2_3_3.tgz"
MG5_LOG_DIR == "/storage/" \o USER \o "/NMSSMPheno/MG5_aMC/"

\* zip_filename.split('.')[0]
before_dot(p) ==
    LET at == {i \in 1..Len(p) : SubSeq(p, i, i) = "."}
    IN  IF at = {} THEN p
        ELSE SubSeq(p, 1, (CHOOSE i \in at : \A j \in at : i <= j) - 1)

mg5_generate_subdir(channel) == path_join(channel, DATE)

mg5_generate_dir_soolin(channel) ==
    "/hdfs/user/" \o USER \o "/NMSSMPheno/MG5_aMC/" \o mg5_generate_subdir(channel)

\* check_args of the MG5 submitter
mg5_check_args(a) ==
    IF a.jobIdRange[1] < 1 THEN "RuntimeError"
    ELSE IF a.jobIdRange[2] < a.jobIdRange[1] THEN "RuntimeError"
    ELSE ""

\* lines 243-249: the options of the Namespace, in the order keys lists them
RECURSIVE mg5_job_opts(_, _, _)
mg5_job_opts(ns, keys, i) ==
    IF i > Len(keys) THEN <<>>
    ELSE LET k == keys[i]
             val == ns[k]
             text == IF k \in {"hepmc", "pythia8_path"}
                     THEN abspath(PyStr(val)) ELSE PyStr(val)
         IN  (IF Truthy(val) /\ k # "card"
              THEN <<Str("--" \o k), Str(text)>> ELSE <<>>)
             \o mg5_job_opts(ns, keys, i + 1)

\* job_opts[job_opts.index(k)] = v: [err, args]
replace_first(lst, k, x) ==
    IF ~InList(k, lst) THEN [err |-> "ValueError", args |-> lst]
    ELSE [err |-> "", args |-> [lst EXCEPT ![IndexOf(k, lst)] = x]]

\* generate_mg5_job: [err, ns, job]; ns is mg5_args after the call
generate_mg5_job(a, ns, keys, zip_filename, job_index) ==
    LET ns1 == [ns EXCEPT !.iseed = PyInt(job_index),
                          !.exe = Str(before_dot(basename(zip_filename))
                                      \o "/bin/mg5_aMC")]
        r1 == replace_first(<<ns1.card>> \o mg5_job_opts(ns1, keys, 1),
                            Str("--iseed"), Str("--seed"))
        r2 == replace_first(r1.args, Str("--pythia8_path"), Str("--pythia8"))
        name_stem == a.channel \o "_n" \o ToString(ns1.nevents.n)
                       \o "_seed" \o ToString(ns1.iseed.n)
        output_dir == path_join(path_join(a.channel, "Events"), "run_01")
    IN  [err |-> IF r1.err # "" THEN r1.err
                 ELSE IF r2.err # "" THEN r2.err
                 ELSE IF ~IsNum(ns1.nevents) THEN "TypeError"
                 ELSE "",
         ns |-> ns1,
         job |-> [name |-> ToString(job_index) \o "_" \o a.channel,
                  job_index |-> job_index,
                  args |-> r2.args \o <<Str("--newstem"), Str(name_stem)>>,
                  output_files |->
                      <<path_join(output_dir, name_stem \o ".lhe.gz"),
                        path_join(output_dir, name_stem \o ".hepmc.gz"),
                        path_join(output_dir, "RunMaterial_" \o name_stem \o ".tar.gz"),
                        path_join(output_dir, "summary_" \o name_stem \o ".txt")>>,
                  hdfs_mirror_dir |-> a.oDir]]

-----------------------------------------------------------------------------
(* The MG5_aMC submitter as a state machine *)

\* Pass-through arguments (--args ...) of the MG5_aMC submitter.
Mg5BaseArgs == {
    Toks(<<"card.txt", "--pythia8", "p8", "--hepmc", "hm", "-n", "10">>),
    Toks(<<"card.txt", "--pythia8", "/p8", "--hepmc", "/hm">>),
    Toks(<<"card.txt", "--nevents", "10", "--seed", "7", "--pythia8", "/p8",
           "--hepmc", "/hm", "--dry">>),
    Toks(<<"card.txt", "--hepmc", "/hm", "-n", "10">>),
    Toks(<<"", "--pythia8", "/p8", "--hepmc", "/hm", "-n", "10">>) }

\* The order in which mg5_args.__dict__.items() lists the attributes is the
\* interpreter's: both a listing and its reverse are drawn.
Reverse(seq) == [i \in 1..Len(seq) |-> seq[Len(seq) + 1 - i]]
MG5KeyOrders == {MG5Keys, Reverse(MG5Keys)}

\* What the file system answers the MG5_aMC submitter; card_output is the
\* value of the card's 'output' line, "" when the card has none.
Mg5Envs == [mg5_isdir : BOOLEAN, card_isfile : BOOLEAN,
            card_output : {"ggh", ""}, key_order : MG5KeyOrders]

\* get_value_from_card(card, 'output'): [err, val]
get_value_from_card(e) ==
    IF e.card_output = "" THEN [err |-> "KeyError", val |-> ""]
    ELSE [err |-> "", val |-> e.card_output]

\* '%s/mg5_%s' % (generate_subdir(args.channel), strftime("%H%M%S"))
mg5_file_stem(a) == mg5_generate_subdir(a.channel) \o "/mg5_" \o TIME

\* The Namespace after parser.parse_args (lines 55-84)
Mg5Init ==
    /\ prog = "mg5"
    /\ in_args \in Mg5BaseArgs
    /\ env \in Mg5Envs
    /\ \E r \in JobIdRanges, o \in ODirs, d \in BOOLEAN :
          args = [jobIdRange |-> r, oDir |-> o, args |-> in_args, dry |-> d,
                  card |-> "", channel |-> ""]
    /\ mg5_args = NoMg5Args
    /\ log_dir = MG5_LOG_DIR
    /\ pc = "start" /\ err = "" /\ masses = <<>> /\ point = 0
    /\ status_files = <<>> /\ job_ind = 0 /\ cur = NoDag /\ dags = <<>>
    /\ written = <<>> /\ submitted = <<>>

\* lines 86-103: the pass-through arguments are parsed, mg5_dir and the job
\* ID range are checked
Mg5CheckArgs ==
    /\ prog = "mg5" /\ pc = "start"
    /\ LET p == mg5_parse_args(args.args)
       IN  IF p.err # "" THEN Fail(p.err) /\ UNCHANGED mg5_args
           ELSE IF ~env.mg5_isdir
           THEN Fail("RuntimeError") /\ mg5_args' = p.ns
           ELSE IF mg5_check_args(args) # ""
           THEN Fail(mg5_check_args(args)) /\ mg5_args' = p.ns
           ELSE pc' = "setup" /\ err' = err /\ mg5_args' = p.ns
    /\ UNCHANGED <<prog, env, in_args, args, log_dir, masses, point,
                   status_files, job_ind, cur, dags, written, submitted,
                   argVars, nameVars, auxVars>>

\* lines 105-126: the card, the channel, the output and log directories
Mg5Setup ==
    /\ prog = "mg5" /\ pc = "setup"
    /\ LET card == mg5_args.card
           ch == get_value_from_card(env)
           a1 == [args EXCEPT !.card = card.s, !.channel = ch.val]
           a2 == [a1 EXCEPT !.oDir = IF @ = ""
                                     THEN mg5_generate_dir_soolin(ch.val) ELSE @]
       IN  IF ~Truthy(card) \/ ~env.card_isfile
           THEN Fail("RuntimeError")
                /\ UNCHANGED <<args, log_dir, status_files>>
           ELSE IF ch.err # ""
           THEN Fail(ch.err)
                /\ args' = [args EXCEPT !.card = card.s]
                /\ UNCHANGED <<log_dir, status_files>>
           ELSE /\ args' = a2
                /\ log_dir' = path_join(path_join(log_dir,
                                            mg5_generate_subdir(ch.val)), "logs")
                /\ status_files' = Append(status_files,
                                          mg5_file_stem(a2) \o ".status")
                /\ pc' = "create_dag"
                /\ err' = err
    /\ UNCHANGED <<prog, env, in_args, mg5_args, masses, point, job_ind, cur,
                   dags, written, submitted, argVars, nameVars, auxVars>>

\* lines 197-209: create_dag up to its loop over the job IDs
Mg5CreateDag ==
    /\ prog = "mg5" /\ pc = "create_dag"
    /\ LET p == mg5_parse_args(args.args)
       IN  IF p.err # "" THEN Fail(p.err) /\ UNCHANGED <<mg5_args, cur, job_ind>>
           ELSE /\ mg5_args' = p.ns
                /\ cur' = [filename |-> mg5_file_stem(args) \o ".dag",
                           status_file |-> mg5_file_stem(args) \o ".status",
                           log_dir |-> log_dir,
                           hdfs_store |-> args.oDir,
                           mass |-> None,
                           num_events |-> 0,
                           jobs |-> <<>>]
                /\ job_ind' = args.jobIdRange[1]
                /\ pc' = "jobs"
                /\ err' = err
    /\ UNCHANGED <<prog, env, in_args, args, log_dir, masses, point,
                   status_files, dags, written, submitted, argVars, nameVars, auxVars>>

\* lines 211-214: one pass of create_dag's loop
Mg5GenerateJob ==
    /\ prog = "mg5" /\ pc = "jobs" /\ job_ind <= args.jobIdRange[2]
    /\ LET r == generate_mg5_job(args, mg5_args, env.key_order, MG5_ZIP, job_ind)
       IN  IF r.err # ""
           THEN Fail(r.err) /\ mg5_args' = r.ns /\ UNCHANGED <<cur, job_ind>>
           ELSE /\ mg5_args' = r.ns
                /\ cur' = [cur EXCEPT !.jobs = Append(@, r.job)]
                /\ job_ind' = job_ind + 1
                /\ pc' = pc
                /\ err' = err
    /\ UNCHANGED <<prog, env, in_args, args, log_dir, masses, point,
                   status_files, dags, written, submitted, argVars, nameVars, auxVars>>

\* lines 216 and 133-140: create_dag returns, the DAG is written or
\* submitted and the submitter returns 0
Mg5Submit ==
    /\ prog = "mg5" /\ pc = "jobs" /\ job_ind > args.jobIdRange[2]
    /\ dags' = Append(dags, cur)
    /\ IF args.dry
       THEN written' = Append(written, cur.filename) /\ submitted' = submitted
       ELSE submitted' = Append(submitted, cur.filename) /\ written' = written
    /\ cur' = NoDag
    /\ pc' = "done"
    /\ UNCHANGED <<prog, err, env, in_args, args, mg5_args, log_dir, masses,
                   point, status_files, job_ind, argVars, nameVars, auxVars>>

-----------------------------------------------------------------------------
(* Both submitters *)

Init == (Py8Init \/ Mg5Init) /\ IdleArgs /\ IdleName /\ IdleAux

Next ==
    \/ Py8CheckArgs
    \/ Py8Setup
    \/ Py8BeginPoint
    \/ Py8CreateDag
    \/ Py8GenerateJob
    \/ Py8Submit
    \/ Py8Finish
    \/ Mg5CheckArgs
    \/ Mg5Setup
    \/ Mg5CreateDag
    \/ Mg5GenerateJob
    \/ Mg5Submit

Spec == Init /\ [][Next]_vars

-----------------------------------------------------------------------------
(* Properties of the submitters' runs *)

\* The run has ended: the submitter returned 0 or raised.
Ended == pc \in {"done", "failed"}

\* Every DAG made so far, the one under construction included.
AllDags == dags \o (IF cur = NoDag THEN <<>> ELSE <<cur>>)

JobsOf(d) == {d.jobs[i] : i \in 1..Len(d.jobs)}

AllJobs == UNION {JobsOf(AllDags[k]) : k \in 1..Len(AllDags)}

\* The positions of flag f in a job's argument vector.
FlagAt(job, f) == {i \in 1..Len(job.args) : PyEq(job.args[i], Str(f))}

\* The job's vector holds flag f exactly once, directly followed by a token
\* that reads as text.
HasOnce(job, f, text) ==
    /\ Cardinality(FlagAt(job, f)) = 1
    /\ \A i \in FlagAt(job, f) :
          i < Len(job.args) /\ PyStr(job.args[i + 1]) = text

\* The pass-through arguments name the card, and the card and the
\* executable (or the MG5 directory and the card's output line) exist.
InputsExist ==
    IF prog = "py8"
    THEN /\ env.exe_isfile /\ env.card_isfile
         /\ CarriesValue(in_args, Str("--card"))
    ELSE /\ env.mg5_isdir /\ env.card_isfile /\ env.card_output # ""
         /\ mg5_parse_args(in_args).err = ""
         /\ Truthy(mg5_parse_args(in_args).ns.card)
         /\ mg5_parse_args(in_args).ns.nevents # None

\* A seed range [a, b] with 1 <= a <= b.
SeedRangeOk == 1 <= args.jobIdRange[1] /\ args.jobIdRange[1] <= args.jobIdRange[2]

\* A sweep of k >= 1 points, or no sweep and a mass in the pass-through
\* arguments.
SweepOk ==
    IF args.massRange # <<>>
    THEN /\ \A i \in 1..3 : args.massRange[i] > 0
         /\ args.massRange[1] <= args.massRange[2]
    ELSE CarriesValue(in_args, Str("--mass"))

\* The sweep points of the run: those of --massRange, or the one of --mass.
SweepPoints ==
    IF args.massRange # <<>>
    THEN frange(args.massRange[1], args.massRange[2], args.massRange[3])
    ELSE <<in_args[FirstAt(in_args, Str("--mass")) + 1]>>

\* Some output format is asked for.
AsksOutput == \E i \in 1..Len(Formats) : InList(Str("--" \o Formats[i]), in_args)

\* The DAG holds exactly b - a + 1 jobs with the seeds a, a+1, ..., b, and
\* no two of them declare the same set of output files.
SeedsCover(d) ==
    /\ Len(d.jobs) = args.jobIdRange[2] - args.jobIdRange[1] + 1
    /\ \A i \in 1..Len(d.jobs) : d.jobs[i].job_index = args.jobIdRange[1] + i - 1

OutputsDistinct(d) ==
    \A i, j \in 1..Len(d.jobs) :
        i # j => {d.jobs[i].output_files[k] : k \in 1..Len(d.jobs[i].output_files)}
                 # {d.jobs[j].output_files[k] : k \in 1..Len(d.jobs[j].output_files)}

\* C1: for every seed range [a, b] with 1 <= a <= b and every sweep of
\* k >= 1 points (no sweep counting as one point), a Pythia run over inputs
\* that exist and ask for an output ends with one DAG per sweep point, each
\* holding exactly b - a + 1 jobs with the seeds a..b and pairwise distinct
\* sets of declared output files; an MG5 run ends with one DAG of exactly
\* b - a + 1 jobs with the seeds a..b.
C1_OneDagPerPointSeedsCover ==
    (Ended /\ InputsExist /\ SeedRangeOk) =>
        IF prog = "py8"
        THEN (SweepOk /\ AsksOutput) =>
                /\ pc = "done"
                /\ Len(dags) = Len(SweepPoints)
                /\ \A k \in 1..Len(dags) :
                      SeedsCover(dags[k]) /\ OutputsDistinct(dags[k])
        ELSE /\ pc = "done"
             /\ Len(dags) = 1
             /\ SeedsCover(dags[1])

\* C2: the argument vector of every job, whatever the pass-through
\* arguments (a '--seed' with a value among them or not), holds exactly one
\* '--seed' flag, and the token directly after it is the job's index.
C2_ExactlyOneSeedFlag ==
    \A job \in AllJobs : HasOnce(job, "--seed", ToString(job.job_index))

\* C3: with a mass sweep m1, ..., mk active, a Pythia run over inputs that
\* exist ends with jobs for every sweep point mi, and each of them holds
\* exactly one '--mass' flag whose value is mi, whether or not the
\* pass-through arguments held '--mass'.
C3_EverySweepPointGetsItsMass ==
    (prog = "py8" /\ Ended /\ InputsExist /\ SeedRangeOk
       /\ args.massRange # <<>> /\ SweepOk) =>
        \A i \in 1..Len(SweepPoints) :
            /\ i <= Len(dags)
            /\ JobsOf(dags[i]) # {}
            /\ \A job \in JobsOf(dags[i]) :
                  /\ Cardinality(FlagAt(job, "--mass")) = 1
                  /\ \A p \in FlagAt(job, "--mass") :
                        /\ p < Len(job.args)
                        /\ PyEq(job.args[p + 1], SweepPoints[i])

\* text ends with suffix
EndsWith(text, suffix) ==
    /\ Len(suffix) <= Len(text)
    /\ SubSeq(text, Len(text) - Len(suffix) + 1, Len(text)) = suffix

\* text has no directory part
IsBare(text) == \A i \in 1..Len(text) : SubSeq(text, i, i) # "/"

\* The formats whose flag is in the pass-through arguments, in the order
\* generate_pythia_job goes through them.
RECURSIVE FormatsAsked(_)
FormatsAsked(i) ==
    IF i > Len(Formats) THEN <<>>
    ELSE (IF InList(Str("--" \o Formats[i]), in_args)
          THEN <<Formats[i]>> ELSE <<>>) \o FormatsAsked(i + 1)

\* C4: for every Pythia job and every output format flag in the
\* pass-through arguments, the flag's value in the job's vector is a bare
\* filename ending in '_seed<job index>.<format>' and the declared output
\* file of that format is that value, with '.gz' appended when '--zip' is in
\* the vector; the formats whose flag is absent declare no output file.
C4_OutputValuesCarrySeed ==
    prog = "py8" =>
    \A job \in AllJobs :
        LET asked == FormatsAsked(1)
            gz == IF FlagAt(job, "--zip") # {} THEN ".gz" ELSE ""
        IN  /\ Len(job.output_files) = Len(asked)
            /\ \A k \in 1..Len(asked) :
                  LET at == FlagAt(job, "--" \o asked[k]) IN
                  /\ at # {}
                  /\ \A p \in at :
                        /\ p < Len(job.args)
                        /\ IsStr(job.args[p + 1])
                        /\ IsBare(job.args[p + 1].s)
                        /\ EndsWith(job.args[p + 1].s,
                                    "_seed" \o ToString(job.job_index)
                                            \o "." \o asked[k])
                        /\ job.output_files[k] = job.args[p + 1].s \o gz

-----------------------------------------------------------------------------
(* run_mg5.py: make_card *)

\* text.find(sub, from): the first position >= from where sub starts, 0 when
\* there is none (positions are 1-based here).
Find(text, sub, from) ==
    LET at == {i \in from..(Len(text) - Len(sub) + 1) :
                  SubSeq(text, i, i + Len(sub) - 1) = sub}
    IN  IF at = {} THEN 0 ELSE CHOOSE i \in at : \A j \in at : i <= j

\* sub in text
Contains(text, sub) == Find(text, sub, 1) > 0

\* text.startswith(sub)
StartsWith(text, sub) ==
    Len(sub) <= Len(text) /\ SubSeq(text, 1, Len(sub)) = sub

\* new.join(text) with new also in front and behind: what str.replace does
\* for an empty old.
RECURSIVE Interleave(_, _)
Interleave(text, new) ==
    IF text = "" THEN new
    ELSE new \o SubSeq(text, 1, 1) \o Interleave(SubSeq(text, 2, Len(text)), new)

\* text.replace(old, new): every occurrence, left to right
RECURSIVE StrReplace(_, _, _)
StrReplace(text, old, new) ==
    IF old = "" THEN Interleave(text, new)
    ELSE LET i == Find(text, old, 1) IN
         IF i = 0 THEN text
         ELSE SubSeq(text, 1, i - 1) \o new
              \o StrReplace(SubSeq(text, i + Len(old), Len(text)), old, new)

\* file.readlines(): the lines of text, each with its line break
RECURSIVE readlines(_)
readlines(text) ==
    IF text = "" THEN <<>>
    ELSE LET i == Find(text, "\n", 1) IN
         IF i = 0 THEN <<text>>
         ELSE <<SubSeq(text, 1, i)>> \o readlines(SubSeq(text, i + 1, Len(text)))

\* ''.join(lines)
RECURSIVE JoinLines(_)
JoinLines(lines) ==
    IF lines = <<>> THEN "" ELSE Head(lines) \o JoinLines(Tail(lines))

\* re.compile(name + r' (.*)$').search(line): [found, group1]. '.' matches
\* no line break and '$' matches in front of a final one, so group 1 runs
\* from behind the first 'name ' to the end of the line's text.
search_group(name, line) ==
    LET i == Find(line, name \o " ", 1)
        last == IF Len(line) >= 1 /\ SubSeq(line, Len(line), Len(line)) = "\n"
                THEN Len(line) - 1 ELSE Len(line)
    IN  IF i = 0 THEN [found |-> FALSE, group1 |-> ""]
        ELSE [found |-> TRUE, group1 |-> SubSeq(line, i + Len(name) + 1, last)]

\* lines 159-167 for one line: [err, line]
replace_in_line(line, name, val) ==
    IF line = "" \/ StartsWith(line, "#") \/ ~Contains(line, name)
    THEN [err |-> "", line |-> line]
    ELSE LET m == search_group(name, line) IN
         \* p.search(line) is None: .group raises AttributeError, which the
         \* except IndexError does not catch
         IF ~m.found THEN [err |-> "AttributeError", line |-> line]
         ELSE [err |-> "", line |-> StrReplace(line, m.group1, PyStr(val))]

\* lines 157-167: the loop over the lines for one field, [err, lines]
RECURSIVE apply_field(_, _, _, _)
apply_field(lines, i, name, val) ==
    IF i > Len(lines) THEN [err |-> "", lines |-> lines]
    ELSE LET r == replace_in_line(lines[i], name, val) IN
         IF r.err # "" THEN [err |-> r.err, lines |-> lines]
         ELSE apply_field([lines EXCEPT ![i] = r.line], i + 1, name, val)

\* Most lines a card drawn has.
MaxCardLines == 2

\* Lines of MG5 cards: settings, a comment, a blank line, lines that hold a
\* field name inside a longer word, and settings without a value.
CardLines == {
    "set run_card nevents 200\n",
    "a15 nevents 1\n",
    "output genevents\n",
    "set genevents 200\n",
    "# nevents 1\n",
    "\n",
    "set nevents \n",
    "set nevents\n",
    "set iseed 3\n" }

RECURSIVE CardsOfLen(_)
CardsOfLen(n) ==
    IF n = 0 THEN {""}
    ELSE {c \o l : c \in CardsOfLen(n - 1), l \in CardLines}

\* The texts of the card files.
Cards == UNION {CardsOfLen(n) : n \in 1..MaxCardLines}

\* The names and values run_mg5 hands to make_card (mg_vars, line 88).
FieldNames == {"nevents", "iseed"}
FieldValues == {PyInt(1), PyInt(5)}
Field(n, x) == [name |-> n, value |-> x]

\* The dict fields as the sequence iteritems() yields: no field, one field,
\* or two fields of different names in either order.
FieldSeqs ==
    {<<>>}
    \cup {<<Field(n, x)>> : n \in FieldNames, x \in FieldValues}
    \cup {fs \in {<<Field(n, x), Field(m, y)>> :
                      n \in FieldNames, m \in FieldNames,
                      x \in FieldValues, y \in FieldValues} :
             fs[1].name # fs[2].name}

\* make_card(in_card, out_card, fields) is called; the output card file
\* does not exist yet or is an older card.
CardInit ==
    /\ in_card \in Cards
    /\ card_orig = in_card
    /\ fields \in FieldSeqs
    /\ card_template = <<>>
    /\ field_ind = 0
    /\ out_card \in {NoFile, [exists |-> TRUE, text |-> "old card\n"]}
    /\ out_before = out_card
    /\ cpc = "read" /\ cerr = "" /\ renderings = 0
    /\ read_field = "" /\ read_back = NoRead

\* lines 150-151: card_template = in_file.readlines()
CardRead ==
    /\ cpc = "read"
    /\ card_template' = readlines(in_card)
    /\ field_ind' = 0
    /\ cpc' = "fields"
    /\ UNCHANGED <<in_card, card_orig, fields, out_card, out_before, cerr,
                   renderings, read_field, read_back,
                   argVars, nameVars, runVars, grpVars, delVars>>

\* lines 153-167: one pass of the loop over the fields
CardField ==
    /\ cpc = "fields" /\ field_ind < Len(fields)
    /\ LET f == fields[field_ind + 1]
           r == apply_field(card_template, 1, f.name, f.value)
       IN  /\ card_template' = r.lines
           /\ IF r.err # ""
              THEN cpc' = "failed" /\ cerr' = r.err /\ field_ind' = field_ind
              ELSE cpc' = cpc /\ cerr' = cerr /\ field_ind' = field_ind + 1
    /\ UNCHANGED <<in_card, card_orig, fields, out_card, out_before,
                   renderings, read_field, read_back,
                   argVars, nameVars, runVars, grpVars, delVars>>

\* lines 169-172: the new card is written
CardWrite ==
    /\ cpc = "fields" /\ field_ind = Len(fields)
    /\ out_card' = [exists |-> TRUE, text |-> JoinLines(card_template)]
    /\ cpc' = "written"
    /\ renderings' = renderings + 1
    /\ UNCHANGED <<in_card, card_orig, fields, card_template, field_ind,
                   out_before, cerr, read_field, read_back,
                   argVars, nameVars, runVars, grpVars, delVars>>

\* make_card is called on the card it wrote, for the same field with
\* another value, to write a card that does not exist yet.
CardAgain ==
    /\ cpc = "written" /\ renderings = 1 /\ Len(fields) = 1
    /\ \E x \in FieldValues \ {fields[1].value} :
          fields' = <<Field(fields[1].name, x)>>
    /\ in_card' = out_card.text
    /\ out_card' = NoFile
    /\ out_before' = NoFile
    /\ card_template' = <<>>
    /\ field_ind' = 0
    /\ cpc' = "read"
    /\ UNCHANGED <<card_orig, cerr, renderings, read_field, read_back,
                   argVars, nameVars, runVars, grpVars, delVars>>

\* The characters str.strip() and str.split() take for whitespace.
IsSpace(c) == c \in {" ", "\n"}

\* text.strip()
RECURSIVE strip(_)
strip(text) ==
    IF text = "" THEN ""
    ELSE IF IsSpace(SubSeq(text, 1, 1)) THEN strip(SubSeq(text, 2, Len(text)))
    ELSE IF IsSpace(SubSeq(text, Len(text), Len(text)))
    THEN strip(SubSeq(text, 1, Len(text) - 1))
    ELSE text

\* text.split()[-1] for a text that neither is empty nor ends in
\* whitespace: what stands behind its last whitespace character.
split_last(text) ==
    LET at == {i \in 1..Len(text) : IsSpace(SubSeq(text, i, i))}
    IN  IF at = {} THEN text
        ELSE SubSeq(text, (CHOOSE i \in at : \A j \in at : j <= i) + 1, Len(text))

\* get_value_from_card on the lines of the card: the last word of the
\* first line whose stripped text has the field in it, else KeyError.
RECURSIVE get_value_from_lines(_, _)
get_value_from_lines(lines, field) ==
    IF lines = <<>> THEN Raise("KeyError")
    ELSE IF Contains(strip(Head(lines)), field)
    THEN Ok(Str(split_last(strip(Head(lines)))))
    ELSE get_value_from_lines(Tail(lines), field)

\* The fields a card is asked for: those of make_card and 'output'
\* (run_mg5 line 108, the submitter's line 112).
ReadNames == FieldNames \cup {"output"}

\* get_value_from_card(new_card, field) on the card make_card wrote
CardGetValue ==
    /\ cpc = "written"
    /\ \E f \in ReadNames :
          /\ read_field' = f
          /\ read_back' = get_value_from_lines(readlines(out_card.text), f)
    /\ cpc' = "read_back"
    /\ UNCHANGED <<in_card, card_orig, fields, card_template, field_ind,
                   out_card, out_before, cerr, renderings,
                   argVars, nameVars, runVars, grpVars, delVars>>

CardNext == CardRead \/ CardField \/ CardWrite \/ CardAgain \/ CardGetValue

InitCard == CardInit /\ IdleArgs /\ IdleName /\ IdleRun /\ IdleGroup
            /\ IdleDelphes

SpecCard == InitCard /\ [][CardNext]_vars

-----------------------------------------------------------------------------
(* Properties of make_card *)

IsComment(line) == StartsWith(line, "#")

\* The positions where name stands on the line as a word of its own.
WordAt(line, name) ==
    {i \in 1..(Len(line) - Len(name) + 1) :
        /\ SubSeq(line, i, i + Len(name) - 1) = name
        /\ i = 1 \/ SubSeq(line, i - 1, i - 1) = " "
        /\ i + Len(name) > Len(line)
           \/ SubSeq(line, i + Len(name), i + Len(name)) \in {" ", "\n"}}

HasWord(line, name) == WordAt(line, name) # {}

\* name occurs on the line, but only inside longer words.
OnlyInWord(line, name) == Contains(line, name) /\ ~HasWord(line, name)

FirstWordAt(line, name) ==
    CHOOSE i \in WordAt(line, name) : \A j \in WordAt(line, name) : i <= j

\* The line break of the line, "" when it has none.
LineBreak(line) ==
    IF Len(line) >= 1 /\ SubSeq(line, Len(line), Len(line)) = "\n"
    THEN "\n" ELSE ""

\* The text between the separator behind the word name and the line break.
ValueText(line, name) ==
    SubSeq(line, FirstWordAt(line, name) + Len(name) + 1,
           Len(line) - Len(LineBreak(line)))

\* The line is no comment, holds name as a word and a value text behind it.
Matches(line, name) ==
    ~IsComment(line) /\ HasWord(line, name) /\ ValueText(line, name) # ""

\* The line is no comment and holds name as a word with nothing, or only
\* the separator, behind it.
LacksValue(line, name) ==
    ~IsComment(line) /\ HasWord(line, name) /\ ValueText(line, name) = ""

\* The line with only its value text replaced.
WithValue(line, name, val) ==
    SubSeq(line, 1, FirstWordAt(line, name) + Len(name)) \o PyStr(val)
        \o LineBreak(line)

FieldSet == {fields[k] : k \in 1..Len(fields)}
OrigLines == readlines(card_orig)
OutLines == readlines(out_card.text)

\* The first make_card has returned, or has raised.
FirstDone == cpc = "written" /\ renderings = 1
FirstFailed == cpc = "failed" /\ renderings = 0

\* Every line of the card that holds the name of a field is a comment or
\* holds the name as a word with a value text behind it.
PlainCard ==
    \A i \in 1..Len(OrigLines) : \A f \in FieldSet :
        Contains(OrigLines[i], f.name) =>
            IsComment(OrigLines[i]) \/ Matches(OrigLines[i], f.name)

\* C11: on a card whose lines that hold a field name all hold it as a word
\* with a value, every line that matches a field name comes out with only
\* the value text behind the name replaced by the string form of the new
\* value: the text before the name, the name and the line break are kept,
\* also when the old value text occurs elsewhere on the line.
C11_OnlyValueTextReplaced ==
    (FirstDone /\ PlainCard) =>
        \A i \in 1..Len(OrigLines) : \A f \in FieldSet :
            Matches(OrigLines[i], f.name) =>
                /\ i <= Len(OutLines)
                /\ OutLines[i] = WithValue(OrigLines[i], f.name, f.value)

\* C12: a line that holds a field name only inside a longer word ('output
\* genevents' for 'nevents') is no match: it does not make make_card fail
\* and comes out byte-identical, while a line that holds the name as a
\* word with another value is rewritten.
C12_NameInsideWordIsNoMatch ==
    ((FirstDone \/ FirstFailed)
       /\ \A i \in 1..Len(OrigLines) : \A f \in FieldSet :
             Contains(OrigLines[i], f.name) =>
                \/ IsComment(OrigLines[i])
                \/ Matches(OrigLines[i], f.name)
                \/ OnlyInWord(OrigLines[i], f.name)) =>
        /\ FirstDone
        /\ Len(OutLines) = Len(OrigLines)
        /\ \A i \in 1..Len(OrigLines) :
              /\ (\A f \in FieldSet : ~HasWord(OrigLines[i], f.name))
                    => OutLines[i] = OrigLines[i]
              /\ \A f \in FieldSet :
                    (Matches(OrigLines[i], f.name)
                       /\ ValueText(OrigLines[i], f.name) # PyStr(f.value))
                    => OutLines[i] # OrigLines[i]

\* C13: the card make_card writes has as many lines as the card it read,
\* and every line that begins with '#' or holds no field name is
\* byte-identical to the input line; so with no field, or with fields
\* whose names are on no line, the output is the input.
C13_OtherLinesUntouched ==
    FirstDone =>
        /\ Len(OutLines) = Len(OrigLines)
        /\ \A i \in 1..Len(OrigLines) :
              (IsComment(OrigLines[i])
                 \/ \A f \in FieldSet : ~Contains(OrigLines[i], f.name))
              => OutLines[i] = OrigLines[i]

\* C14: when a line that is no comment holds a field name as a word with
\* no value text behind it (nothing, or only the separator), make_card
\* raises, and the output card file is as it was before the call.
C14_MissingValueIsFatal ==
    ((FirstDone \/ FirstFailed)
       /\ \E i \in 1..Len(OrigLines) : \E f \in FieldSet :
             LacksValue(OrigLines[i], f.name)) =>
        FirstFailed /\ out_card = out_before

\* C15: on a card whose lines that hold the field's name all hold it as a
\* word with a value, rendering the field with v1 and then the written
\* card with v2 gives the card that rendering the original once with v2
\* gives.
C15_SecondValueWins ==
    (cpc = "written" /\ renderings = 2
       /\ \A i \in 1..Len(OrigLines) :
             Contains(OrigLines[i], fields[1].name) =>
                IsComment(OrigLines[i]) \/ Matches(OrigLines[i], fields[1].name)) =>
        out_card.text =
            JoinLines(apply_field(OrigLines, 1, fields[1].name,
                                  fields[1].value).lines)

-----------------------------------------------------------------------------
(* common.py: grouper *)

\* izip_longest over n references to one iterator, from position pos of the
\* iterable on: each tuple takes the next n items, a spent iterator gives
\* fillvalue, and the iteration ends with the round in which no reference
\* gives an item. Without any reference (n < 1) there is no round.
RECURSIVE grouper_from(_, _, _, _)
grouper_from(items, pos, size, fillvalue) ==
    IF size < 1 \/ pos > Len(items) THEN <<>>
    ELSE <<[k \in 1..size |-> IF pos + k - 1 <= Len(items)
                              THEN items[pos + k - 1] ELSE fillvalue]>>
         \o grouper_from(items, pos + size, size, fillvalue)

\* A grouper that drops the items behind the last full group.
grouper_droplast(items, size, fillvalue) ==
    LET all == grouper_from(items, 1, size, fillvalue)
    IN  IF size >= 1 /\ Len(items) % size # 0
        THEN SubSeq(all, 1, Len(all) - 1) ELSE all

\* grouper(iterable, n, fillvalue): the tuples of the returned iterator
grouper(items, size, fillvalue) == grouper_from(items, 1, size, fillvalue)

\* Most items an iterable drawn holds, and the largest group size drawn.
MaxItems == 3
MaxGroup == 3

GroupItems == {Str("a.hepmc"), Str("b.hepmc"), Str("c.hepmc")}

RECURSIVE SeqsOfLen(_, _)
SeqsOfLen(S, k) ==
    IF k = 0 THEN {<<>>}
    ELSE {Append(q, x) : q \in SeqsOfLen(S, k - 1), x \in S}

\* grouper(iterable, n) is about to be called with the default fillvalue.
GroupInit ==
    /\ iterable \in UNION {SeqsOfLen(GroupItems, k) : k \in 0..MaxItems}
    /\ gn \in -1..MaxGroup
    /\ groups = <<>> /\ gerr = "" /\ gpc = "call"

\* lines 49-50, and the returned iterator run to its end
GroupCall ==
    /\ gpc = "call"
    /\ groups' = grouper(iterable, gn, None)
    /\ gerr' = ""
    /\ gpc' = "grouped"
    /\ UNCHANGED <<iterable, gn, argVars, nameVars, runVars, cardVars, delVars>>

GroupNext == GroupCall

InitGroup == GroupInit /\ IdleArgs /\ IdleName /\ IdleRun /\ IdleCard
             /\ IdleDelphes

SpecGroup == InitGroup /\ [][GroupNext]_vars

\* The items of the tuples in order, the fillvalue left out.
RECURSIVE Flatten(_, _)
Flatten(tuples, fillvalue) ==
    IF tuples = <<>> THEN <<>>
    ELSE SelectSeq(Head(tuples), LAMBDA x : x # fillvalue)
         \o Flatten(Tail(tuples), fillvalue)

\* ceil(a / b) for b >= 1
CeilDiv(a, b) == (a + b - 1) \div b

\* C16: for every sequence A and every n >= 1, grouper(A, n) yields
\* ceil(|A| / n) tuples, each of length exactly n; fillvalues stand only at
\* the end of the last tuple; the items of the tuples in order, fillvalues
\* left out, are A.
C16_GroupsPartitionTheItems ==
    (gpc = "grouped" /\ gn >= 1) =>
        /\ gerr = ""
        /\ Len(groups) = CeilDiv(Len(iterable), gn)
        /\ \A g \in 1..Len(groups) :
              /\ Len(groups[g]) = gn
              /\ \A k \in 1..gn :
                    groups[g][k] = None =>
                        /\ g = Len(groups)
                        /\ \A j \in k..gn : groups[g][j] = None
        /\ Flatten(groups, None) = iterable

\* C16 witness: three items were grouped in twos, the last tuple is padded.
C16_Witness ==
    /\ gpc = "grouped" /\ gn = 2 /\ Len(iterable) = 3
    /\ Len(groups) = 2 /\ groups[2][2] = None

\* C17: for n < 1 grouper raises, whatever the sequence; it never returns
\* an empty or partial grouping.
C17_SmallSizeRaises ==
    (gpc = "grouped" /\ gn < 1) => gerr # ""

-----------------------------------------------------------------------------
(* The Delphes submitter *)

\* text.rstrip('/')
RECURSIVE rstrip_slash(_)
rstrip_slash(text) ==
    IF Len(text) >= 1 /\ SubSeq(text, Len(text), Len(text)) = "/"
    THEN rstrip_slash(SubSeq(text, 1, Len(text) - 1))
    ELSE text

\* os.path.dirname(p): what precedes the last '/', without trailing
\* slashes unless it is all slashes
dirname(p) ==
    LET head == SubSeq(p, 1, RFind(p, "/"))
    IN  IF rstrip_slash(head) = "" THEN head ELSE rstrip_slash(head)

UpperCase == "ABCDEFGHIJKLMNOPQRSTUVWXYZ"
LowerCase == "abcdefghijklmnopqrstuvwxyz"

\* text.lower()
RECURSIVE lower(_)
lower(text) ==
    IF text = "" THEN ""
    ELSE LET c == SubSeq(text, 1, 1)
             k == Find(UpperCase, c, 1)
         IN  (IF k = 0 THEN c ELSE SubSeq(LowerCase, k, k))
             \o lower(SubSeq(text, 2, Len(text)))

DELPHES_LOG_DIR == "/storage/" \o USER \o "/NMSSMPheno/delphes"

\* The extensions accept_file takes.
Extensions == <<".lhe", ".hepmc", ".gz", ".tar.gz", ".tgz">>

\* accept_file(filename), e telling which names are files
accept_file(filename, e) ==
    LET fl == lower(basename(filename))
    IN  \E k \in 1..Len(Extensions) :
            basename(filename) \in e.files /\ EndsWith(fl, Extensions[k])

\* stem(filename)
stem(filename) == before_dot(basename(filename))

\* generate_output_dir(input_dir, card, filetype)
generate_output_dir(input_dir, card, filetype) ==
    path_join(dirname(rstrip_slash(input_dir)),
              splitext_root(basename(card)) \o "_" \o filetype)

\* generate_subdir(card) of the Delphes submitter
delphes_generate_subdir(card) == path_join(splitext_root(basename(card)), DATE)

\* check_args(args, delphes_dir): the error it raises, "" when it returns
delphes_check_args(a, e) ==
    IF ~e.delphes_isdir THEN "OSError"
    ELSE IF ~e.idir_isdir THEN "OSError"
    ELSE IF ~e.card_isfile THEN "OSError"
    ELSE IF dirname(a.card) # "input_cards" THEN "OSError"
    ELSE ""

\* lines 193-195: the accepted files of the listing, in its order
collect_input_files(listing, a, e) ==
    LET abs_idir == abspath(a.iDir)
        paths == [k \in 1..Len(listing) |-> path_join(abs_idir, listing[k])]
        kept == SelectSeq(paths, LAMBDA f : accept_file(f, e))
    IN  [k \in 1..Len(kept) |-> Str(kept[k])]

\* The number of files a job runs over (files_per_job, line 218).
files_per_job == 2

\* './DelphesHepMC' or './DelphesLHEF' (exe_dict, lines 214-215)
delphes_exe(type) == IF type = "hepmc" THEN "./DelphesHepMC" ELSE "./DelphesLHEF"

\* lines 226-227: the --process commands of the job
RECURSIVE process_args(_, _)
process_args(files, a) ==
    IF files = <<>> THEN <<>>
    ELSE <<Str("--process"), Head(files),
           Str(path_join(a.oDir, stem(Head(files).s)) \o ".root")>>
         \o process_args(Tail(files), a)

\* A job made from the whole tuple, fillvalues included.
delphes_job_nofilter(i, tuple, a) ==
    [name |-> "delphes" \o ToString(i),
     args |-> <<Str("--card"), Str(basename(a.card)),
                Str("--exe"), Str(delphes_exe(a.type))>>
              \o process_args(tuple, a)]

\* lines 220-231: the job for tuple number i of grouper
delphes_job(i, tuple, a) ==
    [name |-> "delphes" \o ToString(i),
     args |-> <<Str("--card"), Str(basename(a.card)),
                Str("--exe"), Str(delphes_exe(a.type))>>
              \o process_args(SelectSeq(tuple, Truthy), a)]

\* Most entries a directory listing drawn has.
MaxFiles == 3

\* Names in the input directory; 'old.gz' is a directory.
DelNames == {"a.hepmc", "a.lhe", "b.lhe.gz", "c.txt", "D.LHE", "old.gz"}
DelFiles == DelNames \ {"old.gz"}

\* The listings: the names of a directory in any order.
Listings ==
    {l \in UNION {SeqsOfLen(DelNames, k) : k \in 0..MaxFiles} :
        \A i, j \in 1..Len(l) : i # j => l[i] # l[j]}

DelEnvs ==
    {[delphes_isdir |-> TRUE, idir_isdir |-> TRUE, card_isfile |-> TRUE,
      files |-> DelFiles],
     [delphes_isdir |-> FALSE, idir_isdir |-> TRUE, card_isfile |-> TRUE,
      files |-> DelFiles],
     [delphes_isdir |-> TRUE, idir_isdir |-> FALSE, card_isfile |-> TRUE,
      files |-> DelFiles],
     [delphes_isdir |-> TRUE, idir_isdir |-> TRUE, card_isfile |-> FALSE,
      files |-> DelFiles]}

\* The Namespace after parser.parse_args (lines 46-68); oDir is "" when
\* --oDir is not given.
DelphesInit ==
    /\ del_listing \in Listings
    /\ del_env \in DelEnvs
    /\ del_args \in [card : {"input_cards/d.tcl", "d.tcl"},
                     iDir : {"/hdfs/in/", "in"},
                     type : {"hepmc", "lhe"},
                     oDir : {"", "/hdfs/out"},
                     dry : BOOLEAN]
    /\ del_log_dir = DELPHES_LOG_DIR
    /\ del_pc = "start" /\ del_err = ""
    /\ input_files = <<>> /\ batches = <<>> /\ ind = 0 /\ del_jobs = <<>>
    /\ del_written = FALSE /\ del_submitted = FALSE

\* lines 77-84: iDir loses its trailing slashes, the arguments are checked
DelphesCheckArgs ==
    /\ del_pc = "start"
    /\ LET a1 == [del_args EXCEPT !.iDir = rstrip_slash(@)]
           e == delphes_check_args(a1, del_env)
       IN  /\ del_args' = a1
           /\ IF e # "" THEN del_pc' = "failed" /\ del_err' = e
              ELSE del_pc' = "setup" /\ del_err' = del_err
    /\ UNCHANGED <<del_listing, del_env, del_log_dir, input_files, batches,
                   ind, del_jobs, del_written, del_submitted,
                   argVars, nameVars, runVars, cardVars, grpVars>>

\* lines 86-96: the output directory and the log directory
DelphesSetup ==
    /\ del_pc = "setup"
    /\ del_args' = [del_args EXCEPT !.oDir =
                       IF @ = ""
                       THEN generate_output_dir(del_args.iDir,
                                                basename(del_args.card),
                                                del_args.type)
                       ELSE @]
    /\ del_log_dir' = path_join(del_log_dir,
                                delphes_generate_subdir(del_args.card))
    /\ del_pc' = "create_dag"
    /\ UNCHANGED <<del_listing, del_env, del_err, input_files, batches, ind,
                   del_jobs, del_written, del_submitted,
                   argVars, nameVars, runVars, cardVars, grpVars>>

\* lines 186-219: the input files are collected and handed to grouper
DelphesCollect ==
    /\ del_pc = "create_dag"
    /\ LET files == collect_input_files(del_listing, del_args, del_env)
       IN  /\ input_files' = files
           /\ IF files = <<>>
              THEN del_pc' = "failed" /\ del_err' = "OSError"
                   /\ UNCHANGED <<batches, ind>>
              ELSE /\ batches' = grouper(files, files_per_job, None)
                   /\ ind' = 0
                   /\ del_pc' = "jobs"
                   /\ del_err' = del_err
    /\ UNCHANGED <<del_listing, del_env, del_args, del_log_dir, del_jobs,
                   del_written, del_submitted,
                   argVars, nameVars, runVars, cardVars, grpVars>>

\* lines 219-233: one pass of the loop over the tuples of grouper
DelphesJob ==
    /\ del_pc = "jobs" /\ batches # <<>>
    /\ del_jobs' = Append(del_jobs, delphes_job(ind, Head(batches), del_args))
    /\ batches' = Tail(batches)
    /\ ind' = ind + 1
    /\ UNCHANGED <<del_listing, del_env, del_args, del_log_dir, del_pc,
                   del_err, input_files, del_written, del_submitted,
                   argVars, nameVars, runVars, cardVars, grpVars>>

\* lines 235 and 104-110: the DAG is written or submitted
DelphesSubmit ==
    /\ del_pc = "jobs" /\ batches = <<>>
    /\ IF del_args.dry
       THEN del_written' = TRUE /\ del_submitted' = del_submitted
       ELSE del_submitted' = TRUE /\ del_written' = del_written
    /\ del_pc' = "done"
    /\ UNCHANGED <<del_listing, del_env, del_args, del_log_dir, del_err,
                   input_files, batches, ind, del_jobs,
                   argVars, nameVars, runVars, cardVars, grpVars>>

DelphesNext ==
    \/ DelphesCheckArgs
    \/ DelphesSetup
    \/ DelphesCollect
    \/ DelphesJob
    \/ DelphesSubmit

InitDelphes == DelphesInit /\ IdleArgs /\ IdleName /\ IdleRun /\ IdleCard
               /\ IdleGroup

SpecDelphes == InitDelphes /\ [][DelphesNext]_vars

-----------------------------------------------------------------------------
(* Properties of the Delphes submitter *)

\* The positions of '--process' in a job's argument vector.
ProcessAt(job) == {p \in 1..Len(job.args) : job.args[p] = Str("--process")}

\* The input files of the job's --process commands, in order.
ProcessInputs(job) ==
    LET at == SelectSeq([p \in 1..Len(job.args) |-> p],
                        LAMBDA p : p \in ProcessAt(job))
    IN  [k \in 1..Len(at) |-> job.args[at[k] + 1]]

RECURSIVE AllProcessInputs(_)
AllProcessInputs(jobs) ==
    IF jobs = <<>> THEN <<>>
    ELSE ProcessInputs(Head(jobs)) \o AllProcessInputs(Tail(jobs))

\* The accepted files of the input directory.
AcceptedFiles ==
    {Str(path_join(abspath(del_args.iDir), del_listing[k])) :
        k \in {j \in 1..Len(del_listing) :
                  accept_file(path_join(abspath(del_args.iDir), del_listing[j]),
                              del_env)}}

\* C18: when the Delphes submitter is done, there is one job per tuple of
\* grouper; no job's vector holds the fillvalue; every job holds at least
\* one and at most files_per_job '--process <input> <output>' commands; and
\* the inputs of these commands, job after job, are the accepted input
\* files in the order of the listing, each exactly once.
C18_OneJobPerBatchNoPad ==
    del_pc = "done" =>
        /\ Len(del_jobs) = Len(grouper(input_files, files_per_job, None))
        /\ \A j \in 1..Len(del_jobs) :
              /\ \A p \in 1..Len(del_jobs[j].args) : del_jobs[j].args[p] # None
              /\ Cardinality(ProcessAt(del_jobs[j])) \in 1..files_per_job
              /\ Len(del_jobs[j].args) = 4 + 3 * Cardinality(ProcessAt(del_jobs[j]))
              /\ \A p \in ProcessAt(del_jobs[j]) : p > 4 /\ (p - 5) % 3 = 0
        /\ AllProcessInputs(del_jobs) = input_files
        /\ {input_files[k] : k \in 1..Len(input_files)} = AcceptedFiles
        /\ Cardinality(AcceptedFiles) = Len(input_files)

\* C18 witness: three accepted files went into two jobs, the second job
\* made from a padded tuple.
C18_Witness ==
    /\ del_pc = "done" /\ Len(input_files) = 3 /\ Len(del_jobs) = 2
    /\ Cardinality(ProcessAt(del_jobs[2])) = 1

\* The jobs create_dag makes from a listing.
delphes_plan(listing, a, e) ==
    LET tuples == grouper(collect_input_files(listing, a, e), files_per_job, None)
    IN  [k \in 1..Len(tuples) |-> delphes_job(k - 1, tuples[k], a)]

\* C19: the jobs of a run (names, argument vectors, files per job) are
\* those any other listing order of the same directory gives.
C19_JobsIndependentOfListingOrder ==
    del_pc = "done" =>
        \A other \in Listings :
            {other[k] : k \in 1..Len(other)}
                = {del_listing[k] : k \in 1..Len(del_listing)}
            => delphes_plan(other, del_args, del_env) = del_jobs

-----------------------------------------------------------------------------
(* The seed range check of the Pythia8 and MG5_aMC submitters *)

\* C20: with a malformed job ID range (start < 1, or end < start) a run of
\* the Pythia8 or of the MG5_aMC submitter never gets past its argument
\* checks: it ends there with an exception, no job is generated and no DAG
\* is created, written or submitted.
C20_BadSeedRangeStopsEarly ==
    ~SeedRangeOk =>
        /\ pc \in {"start", "failed"}
        /\ pc = "failed" => err # ""
        /\ cur = NoDag /\ dags = <<>>
        /\ written = <<>> /\ submitted = <<>>

\* C20 witness: the Pythia8 submitter, its executable in place, has
\* raised RuntimeError on a range whose end is below its start.
C20_Witness ==
    /\ prog = "py8" /\ env.exe_isfile
    /\ args.jobIdRange[1] >= 1 /\ args.jobIdRange[2] < args.jobIdRange[1]
    /\ pc = "failed" /\ err = "RuntimeError"

-----------------------------------------------------------------------------
(* Properties of the sweep *)

\* A mass sweep is given in which start, stop or step is <= 0, or in which
\* stop < start.
BadSweep ==
    /\ prog = "py8" /\ args.massRange # <<>>
    /\ \/ \E i \in 1..3 : args.massRange[i] <= 0
       \/ args.massRange[2] < args.massRange[1]

\* C21: if a mass sweep is given in which any of start, stop or step is
\* <= 0, or in which stop < start, the Pythia submitter raises an error
\* before any sweep value is generated and before any DAG is created,
\* written or submitted.
C21_BadSweepStopsEarly ==
    BadSweep =>
        /\ pc \in {"start", "failed"}
        /\ pc = "failed" => err # ""
        /\ masses = <<>> /\ point = 0 /\ status_files = <<>>
        /\ cur = NoDag /\ dags = <<>>
        /\ written = <<>> /\ submitted = <<>>

\* A run whose executable and seed range are fine, ended by check_args on
\* a sweep whose end is below its start.
C21_Witness ==
    /\ prog = "py8" /\ env.exe_isfile /\ SeedRangeOk
    /\ args.massRange # <<>>
    /\ \A i \in 1..3 : args.massRange[i] > 0
    /\ args.massRange[2] < args.massRange[1]
    /\ pc = "failed" /\ err = "RuntimeError"

\* The Pythia submitter has drawn the sweep of an accepted --massRange.
SweepDrawn ==
    /\ prog = "py8" /\ args.massRange # <<>>
    /\ pc \in {"loop", "create_dag", "jobs", "done"} \/ point > 0

\* C22: for every sweep (start, stop, step) accepted by check_args (all
\* three > 0 and stop >= start), frange ends and yields the finite, strictly
\* increasing sequence start, start+step, start+2*step, ... holding exactly
\* the values <= stop: at least one value, exactly one when start = stop,
\* and stop itself whenever stop - start is a whole multiple of step
\* (integer-valued ranges).
C22_FrangeYieldsTheSweep ==
    SweepDrawn =>
        LET start == args.massRange[1]
            stop == args.massRange[2]
            step == args.massRange[3]
            k == Len(masses)
        IN  /\ start > 0 /\ stop >= start /\ step > 0
            /\ k >= 1
            /\ \A i \in 1..k :
                  /\ masses[i] = PyFloat(start + (i - 1) * step)
                  /\ masses[i].n <= stop
            /\ \A i \in 1..(k - 1) : masses[i].n < masses[i + 1].n
            /\ start + k * step > stop
            /\ start = stop => k = 1
            /\ (stop - start) % step = 0 => masses[k].n = stop

\* A sweep of two points, the second of which is its end value, drawn
\* before the loop over the masses begins.
C22_Witness ==
    /\ SweepDrawn
    /\ Len(masses) = 2 /\ masses[2].n = args.massRange[2]
    /\ pc = "loop" /\ point = 0

-----------------------------------------------------------------------------
(* The three submitters together *)

InitSubmitters == Init \/ InitDelphes

NextSubmitters ==
    \/ Py8CheckArgs
    \/ Py8Setup
    \/ Py8BeginPoint
    \/ Py8CreateDag
    \/ Py8GenerateJob
    \/ Py8Submit
    \/ Py8Finish
    \/ Mg5CheckArgs
    \/ Mg5Setup
    \/ Mg5CreateDag
    \/ Mg5GenerateJob
    \/ Mg5Submit
    \/ DelphesCheckArgs
    \/ DelphesSetup
    \/ DelphesCollect
    \/ DelphesJob
    \/ DelphesSubmit

SpecSubmitters == InitSubmitters /\ [][NextSubmitters]_vars

\* The file names of the DAGs that create_dag has returned, in order.
DagFiles == [k \in 1..Len(dags) |-> dags[k].filename]

\* C23: in a dry run (--dry) of the Pythia, MG5 or Delphes submitter no DAG
\* is ever submitted: every DAG that create_dag returns is written exactly
\* once and submit is never called; without --dry every such DAG is
\* submitted exactly once (and write is not called by the submitter).
C23_DryRunNeverSubmits ==
    /\ prog \in {"py8", "mg5"} =>
          IF args.dry
          THEN submitted = <<>> /\ written = DagFiles
          ELSE written = <<>> /\ submitted = DagFiles
    /\ del_pc # "idle" =>
          IF del_args.dry
          THEN ~del_submitted /\ (del_written <=> del_pc = "done")
          ELSE ~del_written /\ (del_submitted <=> del_pc = "done")

\* A dry run of the Pythia submitter that has written its DAG and returned.
C23_Witness ==
    /\ prog = "py8" /\ args.dry
    /\ pc = "done" /\ Len(dags) = 1 /\ Len(dags[1].jobs) >= 1
    /\ written = <<dags[1].filename>>

-----------------------------------------------------------------------------
(* Properties of the Pythia submitter's loop over the sweep points *)

\* --oDir was not given: oDir is "" or the directory the loop generated.
NoOutputDirGiven == args.oDir \notin (ODirs \ {""})

\* A sweep of two or more points is being looped over.
LongSweep ==
    /\ prog = "py8" /\ args.massRange # <<>> /\ Len(masses) >= 2

\* The loop is inside the pass for sweep point masses[point].
InPoint == pc \in {"create_dag", "jobs"}

\* C24: when no output directory is given and a mass sweep has two or more
\* points, the mirror destination (hdfs_mirror_dir / hdfs_store) of the
\* jobs of each sweep point is the directory generated from that point's
\* own mass value, generate_dir_soolin(channel, energy, mass): both the
\* destination the loop holds for the point it is in and the one of every
\* job set and job made so far.
C24_MirrorDirFollowsThePoint ==
    (LongSweep /\ NoOutputDirGiven) =>
        /\ InPoint =>
              args.oDir = generate_dir_soolin(args.channel, args.energy,
                                              masses[point])
        /\ \A k \in 1..Len(AllDags) :
              LET d == AllDags[k]
                  own == generate_dir_soolin(args.channel, args.energy, d.mass)
              IN  /\ d.hdfs_store = own
                  /\ \A job \in JobsOf(d) : job.hdfs_mirror_dir = own

\* <log root>/<generate_subdir(channel, energy, mass)>/logs
PointLogDir(mass) ==
    LOG_DIR \o "/" \o generate_subdir(args.channel, args.energy, mass)
            \o "/logs"

\* C25: for every sweep point, the log directory handed to that point's
\* job set is exactly <log root>/<generate_subdir(channel, energy, mass of
\* that point)>/logs, whichever and however many sweep points were planned
\* before it: both the directory the loop holds for the point it is in and
\* the one of every job set made so far.
C25_LogDirMirrorsThePoint ==
    prog = "py8" =>
        /\ InPoint => log_dir = PointLogDir(masses[point])
        /\ \A k \in 1..Len(AllDags) :
              AllDags[k].log_dir = PointLogDir(AllDags[k].mass)

\* C26: planning is single-shot and a failure aborts with nothing
\* submitted: in any run of the Pythia submitter over a sweep, if planning
\* of any sweep point raises an error, then no DAG of any sweep point has
\* been written or submitted at that moment.
C26_FailureMeansNothingSubmitted ==
    (prog = "py8" /\ args.massRange # <<>> /\ pc = "failed") =>
        written = <<>> /\ submitted = <<>>

\* create_dag's loop is about to call generate_pythia_job.
GeneratesJob ==
    /\ prog = "py8" /\ pc = "jobs" /\ job_ind <= args.jobIdRange[2]

\* Every job made so far is still there, at its place, as it was made.
JobsKept ==
    /\ Len(AllDags') >= Len(AllDags)
    /\ \A k \in 1..Len(AllDags) :
          /\ Len(AllDags'[k].jobs) >= Len(AllDags[k].jobs)
          /\ \A i \in 1..Len(AllDags[k].jobs) :
                AllDags'[k].jobs[i] = AllDags[k].jobs[i]

\* C27: each job gets a fresh clone of the base arguments:
\* generate_pythia_job leaves the shared base vector args.args unchanged
\* (same tokens, same length), and the argument vector of a job, once the
\* job is created, is not changed by the generation of any later job or of
\* any later sweep point.
C27_JobsCloneTheBaseArgs ==
    [][prog = "py8" =>
          /\ GeneratesJob => args'.args = args.args
          /\ JobsKept]_vars

\* Two jobs of a first sweep point, made one after the other from the same
\* base arguments and differing from them and from each other, while the
\* loop is in its second sweep point.
C27_Witness ==
    /\ prog = "py8" /\ point = 2
    /\ Len(dags) = 1 /\ Len(dags[1].jobs) = 2
    /\ dags[1].jobs[1].args # dags[1].jobs[2].args
    /\ \A i \in 1..2 : dags[1].jobs[i].args # args.args

-----------------------------------------------------------------------------
(* The output files of the Delphes jobs *)

\* The <input file, output file> pairs of the --process commands of the
\* jobs made so far.
ProcessPairs ==
    UNION {{<<del_jobs[k].args[p + 1], del_jobs[k].args[p + 2]>> :
               p \in ProcessAt(del_jobs[k])} : k \in 1..Len(del_jobs)}

\* C28: in the Delphes submitter, distinct accepted input files are
\* assigned pairwise-distinct output files: for any two different input
\* files of one submission the output paths <oDir>/<stem(file)>.root
\* differ, so no job overwrites the output of another.
C28_DistinctInputsDistinctOutputs ==
    \A x, y \in ProcessPairs : x[1] # y[1] => x[2] # y[2]

-----------------------------------------------------------------------------
(* The argument vectors of the MG5_aMC jobs *)

\* The job's vector as text tokens, the way the worker node's command line
\* holds them.
CommandLine(job) == [i \in 1..Len(job.args) |-> Str(PyStr(job.args[i]))]

\* C29: the argument vector that generate_mg5_job builds is accepted by
\* MG5ArgParser and round-trips: for every parsed option set accepted by
\* the submitter (the boolean switches --dry or -v set or not), parsing the
\* job's vector succeeds (the card followed only by declared flags, each
\* with one value exactly when it takes one) and yields the same card and
\* nevents, the pythia8 and hepmc paths (made absolute), and iseed equal to
\* the job index.
C29_JobVectorRoundTrips ==
    prog = "mg5" =>
    \A job \in AllJobs :
        LET given == mg5_parse_args(in_args).ns
            back == mg5_parse_args(CommandLine(job))
        IN  /\ back.err = ""
            /\ back.ns.card = given.card
            /\ back.ns.nevents = given.nevents
            /\ back.ns.pythia8_path = Str(abspath(given.pythia8_path.s))
            /\ back.ns.hepmc = Str(abspath(given.hepmc.s))
            /\ back.ns.iseed = PyInt(job.job_index)

-----------------------------------------------------------------------------
(* Reading a value back from the card make_card wrote *)

\* get_value_from_card has been called on the card make_card wrote.
ReadDone == cpc = "read_back"

\* Line i of the card matched field f and was written out with only its
\* value text replaced by the string form of f's value.
RewrittenAt(i, f) ==
    /\ i <= Len(OutLines)
    /\ Matches(OrigLines[i], f.name)
    /\ OutLines[i] = WithValue(OrigLines[i], f.name, f.value)

\* C30: card read-back agrees with card rendering: for any card and any
\* field whose line make_card rewrote to a single-token value v,
\* get_value_from_card on the rendered card returns v for that field, also
\* when an earlier comment line (starting with '#') or a line with a longer
\* word contains the field name; and get_value_from_card raises KeyError
\* exactly when no line of the card holds the field.
C30_ReadBackAgreesWithRendering ==
    ReadDone =>
        /\ \A f \in FieldSet :
              (f.name = read_field
                 /\ \E i \in 1..Len(OrigLines) : RewrittenAt(i, f))
              => read_back = Ok(Str(PyStr(f.value)))
        /\ read_back.err \in {"", "KeyError"}
        /\ read_back.err = "KeyError" <=>
              \A i \in 1..Len(OutLines) : ~Contains(OutLines[i], read_field)

=============================================================================
